---- MODULE Spec2Model ----
(***************************************************************************)
(* Model of the memchunk crate: the row-major chunk manager                *)
(* (BaseChunkManager / RowMajorChunkManager with its IdRegistry,           *)
(* ChunkVector and IndexVectorAssignments), the top-K selectors of         *)
(* topk.rs and the AnySizeMemoryChunk; of the dot-product kernels of the   *)
(* dot_products crate; and of the VecDb file of the vecdb crate.  Floats   *)
(* are modelled by integers that stand for exactly representable f32       *)
(* values.  Indices are zero-based as in the source; a zero-based index i  *)
(* addresses element i + 1 of a TLA+ sequence.                             *)
(***************************************************************************)
EXTENDS Integers, Sequences, FiniteSets, TLC

\* ------------------------------------------------------------------------
\* Bounds of the model
\* ------------------------------------------------------------------------

\* Number of f32 values in one memory chunk (CHUNK_NUM_FLOATS scaled down).
NumFloats == 4

\* Largest dimensionality a manager is created with.
MaxDims == 2

\* LocalIds offered to insert_vector are 1..MaxId.
MaxId == 3

\* ------------------------------------------------------------------------
\* State
\* ------------------------------------------------------------------------

VARIABLES
    optimistic,         \* cfg!(feature = "optimistic")
    debug_assertions,   \* cfg!(debug_assertions)
    num_dims,           \* BaseChunkManager.num_dims
    num_vecs_per_chunk, \* BaseChunkManager.num_vecs_per_chunk
    registry,           \* BaseChunkManager.registry: LocalId -> ChunkIndex
    chunks,             \* BaseChunkManager.chunks: one float sequence per chunk
    assignments,        \* BaseChunkManager.assignments: one row per chunk
    last,               \* the last call of insert_vector and what it returned
    tk,                 \* the last call of a top-K selector and what it returned
    dp,                 \* one call of a dot-product kernel: arguments, workers, results
    mx,                 \* an AnySizeMemoryChunk and the last operation on it
    db,                 \* a VecDb file, the handle on it and the last operation
    gpu,                \* the OpenCL host sequence of opencl_bf_search: host, queues, device
    sa,                 \* one IndexVectorAssignment under replace calls
    ld                  \* one run of load_vectors of opencl_bf_search

mgrVars == <<optimistic, debug_assertions, num_dims, num_vecs_per_chunk,
             registry, chunks, assignments, last>>

\* The part of the manager a caller can observe or that later calls depend on.
mgrState == <<registry, chunks, assignments>>

\* Option<LocalId>::None; LocalId wraps a NonZeroUsize, so 0 is free.
NoneId == 0

LocalIds == 1..MaxId

\* First components of the vectors offered to insert_vector; 0 is left to the
\* zeroed memory of a fresh chunk.
Floats == {1, 2}

RECURSIVE SeqsOfLen(_, _)
SeqsOfLen(S, n) ==
    IF n = 0 THEN {<<>>}
    ELSE {Append(s, x) : s \in SeqsOfLen(S, n - 1), x \in S}

\* The vector <<first, first + 1, ...>> of n pairwise different components.
Ramp(first, n) == [i \in 1..n |-> first + i - 1]

\* Vectors handed to a manager of dimensionality dims: vectors of the right
\* length, and one vector each that is one element short or long.
Vectors(dims) ==
    {Ramp(f, dims) : f \in Floats} \cup {Ramp(1, n) : n \in {dims - 1, dims + 1}}

\* ------------------------------------------------------------------------
\* IdRegistry
\* ------------------------------------------------------------------------

IdRegistry_new == << >>

contains_key_never(map, key) == FALSE

contains_key(map, key) == key \in DOMAIN map

\* BTreeMap::insert: returns the previous value (or None) and the new map.
NoPrevious == -1

IdRegistry_insert_blind(map, key, value) ==
    [previous |-> NoPrevious, map |-> (key :> value) @@ map]

IdRegistry_insert(map, key, value) ==
    [previous |-> IF key \in DOMAIN map THEN map[key] ELSE NoPrevious,
     map      |-> (key :> value) @@ map]

\* ------------------------------------------------------------------------
\* IndexVectorAssignment / IndexVectorAssignments
\* ------------------------------------------------------------------------

IndexVectorAssignment_new(num_vecs) ==
    [count |-> 0, assignments |-> [i \in 1..num_vecs |-> NoneId]]

replace_count_unchanged(a, index, value) ==
    [previous |-> a.assignments[index + 1],
     row      |-> [count       |-> a.count,
                   assignments |-> [a.assignments EXCEPT ![index + 1] = value]]]

replace(a, index, value) ==
    LET previous == a.assignments[index + 1]
        count ==
            IF value # NoneId /\ previous = NoneId THEN a.count + 1
            ELSE IF value = NoneId /\ previous # NoneId THEN a.count - 1
            ELSE a.count
    IN  [previous |-> previous,
         row      |-> [count       |-> count,
                       assignments |-> [a.assignments EXCEPT ![index + 1] = value]]]

IndexVectorAssignment_len(a) == a.count

is_full_nonempty(a) == a.count > 0

is_full(a) == a.count = Len(a.assignments)

IndexVectorAssignments_new(num_vecs) == <<IndexVectorAssignment_new(num_vecs)>>

IndexVectorAssignments_allocate_next(rows, num_vecs) ==
    Append(rows, IndexVectorAssignment_new(num_vecs))

\* ------------------------------------------------------------------------
\* FixedSizeMemoryChunk / ChunkVector
\* ------------------------------------------------------------------------

\* Memory::allocate(SIZE_BYTES, sequential, clear = true): zeroed floats.
FixedSizeMemoryChunk_allocate == [i \in 1..NumFloats |-> 0]

ChunkVector_new == <<FixedSizeMemoryChunk_allocate>>

last_index(v) == Len(v) - 1

ChunkVector_allocate_next(chs) == Append(chs, FixedSizeMemoryChunk_allocate)

\* ------------------------------------------------------------------------
\* BaseChunkManager
\* ------------------------------------------------------------------------

max_vecs_of(chs, vpc) == Len(chs) * vpc

max_vecs == max_vecs_of(chunks, num_vecs_per_chunk)

num_chunks == Len(chunks)

chunk_vector_count(idx) == IndexVectorAssignment_len(assignments[idx + 1])

ensure_chunk_always_allocates(chs, rows, vpc) ==
    [chunk_idx |-> Len(chs), allocated |-> TRUE,
     chunks |-> ChunkVector_allocate_next(chs),
     assignments |-> IndexVectorAssignments_allocate_next(rows, vpc)]

\* Returns the selected chunk (Reused or AllocatedNew) and the chunk vector
\* and assignment table as the call leaves them.
ensure_chunk_with_capacity(chs, rows, vpc) ==
    LET chunk_idx == last_index(chs)
    IN  IF ~is_full(rows[chunk_idx + 1])
        THEN [chunk_idx |-> chunk_idx, allocated |-> FALSE,
              chunks |-> chs, assignments |-> rows]
        ELSE [chunk_idx |-> last_index(ChunkVector_allocate_next(chs)),
              allocated |-> TRUE,
              chunks |-> ChunkVector_allocate_next(chs),
              assignments |-> IndexVectorAssignments_allocate_next(rows, vpc)]

\* target.copy_from_slice(vector) with target = data[idx .. idx + num_dims].
copy_shifted(data, idx, vector) ==
    [i \in 1..Len(data) |->
        IF i > idx + 1 /\ i <= idx + 1 + Len(vector) THEN vector[i - idx - 1] ELSE data[i]]

copy_from_slice(data, idx, vector) ==
    [i \in 1..Len(data) |->
        IF i > idx /\ i <= idx + Len(vector) THEN vector[i - idx] ELSE data[i]]

register_fn_first_slot(index, chunk, dims, vector) ==
    copy_from_slice(chunk, 0, vector)

\* The closure RowMajorChunkManager::insert_vector hands to register_vector.
register_fn(index, chunk, dims, vector) ==
    copy_from_slice(chunk, index * dims, vector)

\* What a call returns (result and the payload of the error), and which
\* chunk and slot register_vector selected on the way.
Outcome(result, err_id, expected, actual, slot, chunk, allocated) ==
    [result |-> result, err_id |-> err_id, expected |-> expected,
     actual |-> actual, slot |-> slot, chunk |-> chunk, allocated |-> allocated]

NoSlot == -1

Ok(slot, chunk, allocated) == Outcome("Ok", NoneId, 0, 0, slot, chunk, allocated)

DuplicateId(id, chunk, allocated) ==
    Outcome("DuplicateId", id, 0, 0, NoSlot, chunk, allocated)

DimensionalityMismatch(expected, actual) ==
    Outcome("DimensionalityMismatch", NoneId, expected, actual, NoSlot, NoSlot, FALSE)

\* A failed debug assertion or bounds check.
Panic(slot, chunk, allocated) ==
    Outcome("panic", NoneId, 0, 0, slot, chunk, allocated)

\* Alignment::is_64byte_aligned on an address: 0 == value & (64 - 1).
is_64byte_aligned(address) == address % 64 = 0

\* target.as_ptr() of the closure of insert_vector, relative to the chunk's
\* base address (which is 64-byte aligned): &data[idx..] with
\* idx = index * num_dims, in bytes of f32.
target_as_ptr(index, dims) == index * dims * 4

\* register_vector: the manager state after the call and its outcome.
register_vector(reg, chs, rows, vpc, dims, opt, dbg, id, vector) ==
    IF ~opt /\ contains_key(reg, id)
    THEN [registry |-> reg, chunks |-> chs, assignments |-> rows,
          out |-> DuplicateId(id, NoSlot, FALSE)]
    ELSE
    LET sel == ensure_chunk_with_capacity(chs, rows, vpc)
        ins == IdRegistry_insert(reg, id, sel.chunk_idx)
    IN  IF ins.previous # NoPrevious
        THEN \* the registry entry is reverted; the selected chunk stays
             [registry    |-> IdRegistry_insert(ins.map, id, ins.previous).map,
              chunks      |-> sel.chunks,
              assignments |-> sel.assignments,
              out         |-> IF dbg /\ sel.allocated
                              THEN Panic(NoSlot, sel.chunk_idx, sel.allocated)
                              ELSE DuplicateId(id, sel.chunk_idx, sel.allocated)]
        ELSE
        LET row  == sel.assignments[sel.chunk_idx + 1]
            slot == IndexVectorAssignment_len(row)
        IN  IF ~(slot < vpc)
            THEN \* "No space left for vectors", or the bounds check of replace
                 [registry |-> ins.map, chunks |-> sel.chunks,
                  assignments |-> sel.assignments,
                  out |-> Panic(NoSlot, sel.chunk_idx, sel.allocated)]
            ELSE
            LET rep == replace(row, slot, id)
                replaced == [sel.assignments EXCEPT ![sel.chunk_idx + 1] = rep.row]
            IN  IF dbg /\ rep.previous # NoneId
                THEN \* "Overwrote slot that was already in use"
                     [registry |-> ins.map, chunks |-> sel.chunks,
                      assignments |-> replaced,
                      out |-> Panic(slot, sel.chunk_idx, sel.allocated)]
                ELSE IF dbg /\ ~is_64byte_aligned(target_as_ptr(slot, dims))
                THEN \* debug_assert!(target.as_ptr().is_64byte_aligned())
                     [registry |-> ins.map, chunks |-> sel.chunks,
                      assignments |-> replaced,
                      out |-> Panic(slot, sel.chunk_idx, sel.allocated)]
                ELSE [registry |-> ins.map,
                      chunks |-> [sel.chunks EXCEPT ![sel.chunk_idx + 1] =
                                     register_fn(slot, @, dims, vector)],
                      assignments |-> replaced,
                      out |-> Ok(slot, sel.chunk_idx, sel.allocated)]

\* ------------------------------------------------------------------------
\* RowMajorChunkManager
\* ------------------------------------------------------------------------

insert_vector_unchecked(reg, chs, rows, vpc, dims, opt, dbg, id, vector) ==
    register_vector(reg, chs, rows, vpc, dims, opt, dbg, id, vector)

\* insert_vector: the manager state after the call and its outcome.
insert_vector(reg, chs, rows, vpc, dims, opt, dbg, id, vector) ==
    IF Len(vector) # dims
    THEN [registry |-> reg, chunks |-> chs, assignments |-> rows,
          out |-> DimensionalityMismatch(dims, Len(vector))]
    ELSE register_vector(reg, chs, rows, vpc, dims, opt, dbg, id, vector)

\* The record of a call: its arguments and its outcome.
Call(op, id, vector, out) ==
    [op |-> op, id |-> id, vector |-> vector, result |-> out.result,
     err_id |-> out.err_id, expected |-> out.expected, actual |-> out.actual,
     slot |-> out.slot, chunk |-> out.chunk, allocated |-> out.allocated]

\* ------------------------------------------------------------------------
\* topk.rs: Entry and helpers
\* ------------------------------------------------------------------------

\* Longest score vector handed to a top-K selector.
MaxLen == 4

\* Scores are the integers MinScore .. MaxScore.
MaxScore == 2

\* The smallest score: the inner product of two opposite unit vectors, which
\* is also the value NaiveBubble fills its result slots with.
MinScore == -1

Scores == MinScore..MaxScore

\* The score vector of the tests quickselect_works and minheap_works.
TestScores == <<30, 3, 1, 12, 2, 11>>

\* Score vectors handed to the selectors.
ScoreVectors == UNION {SeqsOfLen(Scores, n) : n \in 1..MaxLen} \cup {TestScores}

\* Stand-in for f32::MAX: larger than every score.
F32_MAX == 1000000

Entry(index, value) == [index |-> index, value |-> value]

\* Zero-based element access and slice::swap.
At(s, i) == s[i + 1]

swap(s, a, b) == [s EXCEPT ![a + 1] = s[b + 1], ![b + 1] = s[a + 1]]

Min(a, b) == IF a <= b THEN a ELSE b

\* What a selector call leaves behind: the entries it returned (or that it
\* panicked) and the values slice as the call left it.
Returned(panic, entries, values) ==
    [panic |-> panic, entries |-> entries, values |-> values]

NoTopK == [impl |-> "none", K |-> 0, input |-> <<>>, panic |-> FALSE,
           entries |-> <<>>, values |-> <<>>]

\* ------------------------------------------------------------------------
\* NaiveBubble
\* ------------------------------------------------------------------------

\* for j in (0..last_idx).rev(): swap upwards while v is larger.
RECURSIVE bubble_up(_, _, _)
bubble_up(results, j, v) ==
    IF j < 0 THEN results
    ELSE IF v > At(results, j).value
         THEN bubble_up(swap(results, j, j + 1), j - 1, v)
         ELSE results

RECURSIVE NaiveBubble_scan(_, _, _)
NaiveBubble_scan(values, i, results) ==
    IF i >= Len(values) THEN results
    ELSE LET v == At(values, i)
             last_idx == Len(results) - 1
         IN  IF v <= At(results, last_idx).value
             THEN NaiveBubble_scan(values, i + 1, results)
             ELSE NaiveBubble_scan(values, i + 1,
                      bubble_up([results EXCEPT ![last_idx + 1] = Entry(i, v)],
                                last_idx - 1, v))

NaiveBubble_topk(values, K) ==
    Returned(FALSE,
             NaiveBubble_scan(values, 0, [k \in 1..K |-> Entry(0, MinScore)]),
             values)

\* ------------------------------------------------------------------------
\* NaiveUnstable
\* ------------------------------------------------------------------------

\* for i in 0..K: results[i] = (i, values[i]); min = min.min(values[i]).
RECURSIVE NaiveUnstable_min(_, _, _, _)
NaiveUnstable_min(values, K, i, min) ==
    IF i >= K THEN min
    ELSE NaiveUnstable_min(values, K, i + 1, Min(min, At(values, i)))

\* for result in results.iter_mut().take(K): replace the smallest value.
RECURSIVE NaiveUnstable_replace(_, _, _, _, _, _)
NaiveUnstable_replace(results, r, K, e, min, new_min) ==
    IF r >= K \/ r >= Len(results)
    THEN [results |-> results, min |-> new_min]
    ELSE IF At(results, r).value = min
         THEN NaiveUnstable_replace([results EXCEPT ![r + 1] = e], r + 1, K, e,
                                    F32_MAX, Min(new_min, e.value))
         ELSE NaiveUnstable_replace(results, r + 1, K, e, min,
                                    Min(new_min, At(results, r).value))

\* for (i, &v) in values.iter().enumerate().take(K).
RECURSIVE NaiveUnstable_scan(_, _, _, _, _)
NaiveUnstable_scan(values, K, i, results, min) ==
    IF i >= K \/ i >= Len(values) THEN results
    ELSE LET v == At(values, i)
         IN  IF v <= min
             THEN NaiveUnstable_scan(values, K, i + 1, results, min)
             ELSE LET rep == NaiveUnstable_replace(results, 0, K, Entry(i, v),
                                                   min, F32_MAX)
                  IN  NaiveUnstable_scan(values, K, i + 1, rep.results, rep.min)

NaiveUnstable_topk(values, K) ==
    IF Len(values) < K
    THEN Returned(TRUE, <<>>, values)
    ELSE Returned(FALSE,
             NaiveUnstable_scan(values, K, 0,
                 [k \in 1..K |-> Entry(k - 1, values[k])],
                 NaiveUnstable_min(values, K, 0, F32_MAX)),
             values)

\* ------------------------------------------------------------------------
\* QuickSelect, QuickSelectIterative
\* ------------------------------------------------------------------------

merge_into(vectors, indices, K) ==
    [i \in 1..K |-> Entry(indices[i], vectors[i])]

\* for j in left..right: move the elements >= pivot to the front.
RECURSIVE partition_loop(_, _, _, _, _)
partition_loop(data, indices, j, right, i) ==
    IF j >= right THEN [data |-> data, indices |-> indices, i |-> i]
    ELSE IF At(data, j) >= At(data, right)
         THEN partition_loop(swap(data, i, j), swap(indices, i, j), j + 1,
                             right, i + 1)
         ELSE partition_loop(data, indices, j + 1, right, i)

\* partition_max; slice::swap panics on an index that is out of bounds.
partition_max(data, indices, left, right) ==
    LET l == partition_loop(data, indices, left, right, left)
    IN  IF l.i >= Len(data) \/ right >= Len(data)
        THEN [panic |-> TRUE, data |-> l.data, indices |-> l.indices, i |-> l.i]
        ELSE [panic |-> FALSE, data |-> swap(l.data, l.i, right),
              indices |-> swap(l.indices, l.i, right), i |-> l.i]

RECURSIVE quickselect_loop(_, _, _, _, _)
quickselect_loop(data, indices, left, right, K) ==
    LET p == partition_max(data, indices, left, right)
    IN  IF p.panic
        THEN [panic |-> TRUE, data |-> p.data, indices |-> p.indices,
              entry |-> Entry(0, 0)]
        ELSE IF K < p.i
             THEN quickselect_loop(p.data, p.indices, left, p.i - 1, K)
             ELSE IF K > p.i
                  THEN quickselect_loop(p.data, p.indices, p.i + 1, right, K)
                  ELSE [panic |-> FALSE, data |-> p.data, indices |-> p.indices,
                        entry |-> Entry(p.i, At(p.data, p.i))]

\* quickselect_max::<K>: the permuted data and indices and the entry returned.
quickselect_max(data, indices, K) ==
    quickselect_loop(data, indices, 0, Len(data) - 1, K)

QuickSelect_topk(values, K) ==
    LET q == quickselect_max(values, [i \in 1..Len(values) |-> i - 1], K)
    IN  IF q.panic THEN Returned(TRUE, <<>>, q.data)
        ELSE Returned(FALSE, merge_into(q.data, q.indices, K), q.data)

\* The convenience function topk::<K>.
topk(values, K) == QuickSelect_topk(values, K)

\* for j in 0..count: vectors[K + j] = values[i + j]; indices[K + j] = i + j.
refill(vectors, indices, values, K, i, count) ==
    [vectors |-> [p \in 1..Len(vectors) |->
                     IF p > K /\ p <= K + count THEN values[i + (p - K)]
                     ELSE vectors[p]],
     indices |-> [p \in 1..Len(indices) |->
                     IF p > K /\ p <= K + count THEN i + (p - K) - 1
                     ELSE indices[p]]]

\* for i in (buf_size..values.len()).step_by(K).
RECURSIVE QuickSelectIterative_loop(_, _, _, _, _)
QuickSelectIterative_loop(vectors, indices, values, K, i) ==
    IF i >= Len(values)
    THEN [panic |-> FALSE, data |-> vectors, indices |-> indices]
    ELSE LET f == refill(vectors, indices, values, K, i, Min(K, Len(values) - i))
             q == quickselect_max(f.vectors, f.indices, K)
         IN  IF q.panic THEN [panic |-> TRUE, data |-> q.data, indices |-> q.indices]
             ELSE QuickSelectIterative_loop(q.data, q.indices, values, K, i + K)

QuickSelectIterative_topk(values, K) ==
    LET buf_size == Min(2 * K, Len(values))
        q == quickselect_max(SubSeq(values, 1, buf_size),
                             [i \in 1..buf_size |-> i - 1], K)
    IN  IF q.panic THEN Returned(TRUE, <<>>, values)
        ELSE LET l == QuickSelectIterative_loop(q.data, q.indices, values, K,
                                                buf_size)
             IN  IF l.panic THEN Returned(TRUE, <<>>, values)
                 ELSE Returned(FALSE, merge_into(l.data, l.indices, K), values)

\* ------------------------------------------------------------------------
\* MinHeap: std::collections::BinaryHeap<Reverse<Entry>>
\* ------------------------------------------------------------------------

reverse_le_natural(a, b) == a.value <= b.value

\* Reverse(a) <= Reverse(b) under Entry's ordering by value.
reverse_le(a, b) == b.value <= a.value

\* BinaryHeap::sift_up(start, pos).
RECURSIVE sift_up(_, _, _)
sift_up(data, start, pos) ==
    IF pos <= start THEN data
    ELSE LET parent == (pos - 1) \div 2
         IN  IF reverse_le(At(data, pos), At(data, parent)) THEN data
             ELSE sift_up(swap(data, pos, parent), start, parent)

\* BinaryHeap::push.
heap_push(data, item) == sift_up(Append(data, item), 0, Len(data))

\* The descent of BinaryHeap::sift_down_to_bottom: the hole moves to the
\* greater child until it reaches the bottom.
RECURSIVE sift_down_loop(_, _)
sift_down_loop(data, pos) ==
    LET end == Len(data)
        child == 2 * pos + 1
    IN  IF end >= 2 /\ child <= end - 2
        THEN LET c == IF reverse_le(At(data, child), At(data, child + 1))
                      THEN child + 1 ELSE child
             IN  sift_down_loop(swap(data, pos, c), c)
        ELSE IF child = end - 1
             THEN [data |-> swap(data, pos, child), pos |-> child]
             ELSE [data |-> data, pos |-> pos]

sift_down_to_bottom(data, pos) ==
    LET d == sift_down_loop(data, pos)
    IN  sift_up(d.data, pos, d.pos)

\* BinaryHeap::pop on a heap that is not empty: the item and the heap left.
heap_pop(data) ==
    LET n == Len(data)
        rest == SubSeq(data, 1, n - 1)
    IN  IF n = 1 THEN [item |-> data[1], data |-> <<>>]
        ELSE [item |-> data[1],
              data |-> sift_down_to_bottom([rest EXCEPT ![1] = data[n]], 0)]

\* for (i, &v) in values.iter().enumerate().take(K): push.
RECURSIVE MinHeap_fill(_, _, _, _)
MinHeap_fill(values, K, i, heap) ==
    IF i >= K \/ i >= Len(values) THEN heap
    ELSE MinHeap_fill(values, K, i + 1, heap_push(heap, Entry(i, At(values, i))))

\* for (i, &v) in values.iter().enumerate().skip(K): push, then pop.
RECURSIVE MinHeap_scan(_, _, _)
MinHeap_scan(values, i, heap) ==
    IF i >= Len(values) THEN heap
    ELSE MinHeap_scan(values, i + 1,
             heap_pop(heap_push(heap, Entry(i, At(values, i)))).data)

\* for i in (0..K).rev(): result[i] = heap.pop().unwrap().0.
RECURSIVE MinHeap_drain(_, _, _)
MinHeap_drain(heap, i, result) ==
    IF i < 0 THEN [panic |-> FALSE, result |-> result]
    ELSE IF heap = <<>> THEN [panic |-> TRUE, result |-> result]
    ELSE LET p == heap_pop(heap)
         IN  MinHeap_drain(p.data, i - 1, [result EXCEPT ![i + 1] = p.item])

MinHeap_topk(values, K) ==
    LET heap == MinHeap_scan(values, K, MinHeap_fill(values, K, 0, <<>>))
        d == MinHeap_drain(heap, K - 1, [k \in 1..K |-> Entry(0, 0)])
    IN  IF d.panic THEN Returned(TRUE, <<>>, values)
        ELSE Returned(FALSE, d.result, values)

\* ------------------------------------------------------------------------
\* Calls of the selectors
\* ------------------------------------------------------------------------

TopKCall(impl, values, K, r) ==
    [impl |-> impl, K |-> K, input |-> values, panic |-> r.panic,
     entries |-> r.entries, values |-> r.values]

\* No kernel call, no matrix and no VecDb file: the parts of the state a
\* behaviour of the chunk manager or of the selectors never touches.
NoDotProduct == [impl |-> "none"]

NoMatrix == [op |-> "none"]

NoVecDb == [op |-> "none"]

NoGpu == [pc |-> "none"]

NoAssignment == [op |-> "none"]

NoLoad == [op |-> "none"]

\* A chunk manager after ChunkManager::new, before any insertion; the state
\* the behaviours of the other components leave the manager in.
IdleManager ==
    /\ optimistic = FALSE
    /\ debug_assertions = FALSE
    /\ num_dims = 1
    /\ num_vecs_per_chunk = NumFloats \div num_dims
    /\ registry = IdRegistry_new
    /\ chunks = ChunkVector_new
    /\ assignments = IndexVectorAssignments_new(num_vecs_per_chunk)
    /\ last = Call("new", NoneId, <<>>, Ok(NoSlot, NoSlot, FALSE))

\* ChunkManager::new for one build configuration and one dimensionality.
Init ==
    /\ optimistic \in BOOLEAN
    /\ debug_assertions \in BOOLEAN
    /\ num_dims \in 1..MaxDims
    /\ num_vecs_per_chunk = NumFloats \div num_dims
    /\ num_vecs_per_chunk > 0
    /\ registry = IdRegistry_new
    /\ chunks = ChunkVector_new
    /\ assignments = IndexVectorAssignments_new(num_vecs_per_chunk)
    /\ last = Call("new", NoneId, <<>>, Ok(NoSlot, NoSlot, FALSE))
    /\ tk = NoTopK
    /\ dp = NoDotProduct
    /\ mx = NoMatrix
    /\ db = NoVecDb
    /\ gpu = NoGpu
    /\ sa = NoAssignment
    /\ ld = NoLoad

InsertVector ==
    \E id \in LocalIds, vector \in Vectors(num_dims) :
        LET r == insert_vector(registry, chunks, assignments, num_vecs_per_chunk,
                               num_dims, optimistic, debug_assertions, id, vector)
        IN  /\ registry' = r.registry
            /\ chunks' = r.chunks
            /\ assignments' = r.assignments
            /\ last' = Call("insert_vector", id, vector, r.out)
            /\ UNCHANGED <<optimistic, debug_assertions, num_dims, num_vecs_per_chunk,
                           tk, dp, mx, db, gpu, sa, ld>>

Next == InsertVector

vars == <<mgrVars, tk, dp, mx, db, gpu, sa, ld>>

Spec == Init /\ [][Next]_vars

\* ------------------------------------------------------------------------
\* The selectors, each called once on a score vector of length N >= K >= 1
\* ------------------------------------------------------------------------

InitTopK ==
    /\ optimistic = FALSE
    /\ debug_assertions = FALSE
    /\ num_dims = 1
    /\ num_vecs_per_chunk = NumFloats \div num_dims
    /\ registry = IdRegistry_new
    /\ chunks = ChunkVector_new
    /\ assignments = IndexVectorAssignments_new(num_vecs_per_chunk)
    /\ last = Call("new", NoneId, <<>>, Ok(NoSlot, NoSlot, FALSE))
    /\ \E values \in ScoreVectors : \E K \in 1..Len(values) :
          tk = TopKCall("none", values, K, Returned(FALSE, <<>>, values))
    /\ dp = NoDotProduct
    /\ mx = NoMatrix
    /\ db = NoVecDb
    /\ gpu = NoGpu
    /\ sa = NoAssignment
    /\ ld = NoLoad

\* A selector is about to be called on tk.input with tk.K.
Pending == tk.impl = "none" /\ tk.K > 0

CallTopk ==
    /\ Pending
    /\ tk' = TopKCall("topk", tk.input, tk.K, topk(tk.input, tk.K))
    /\ UNCHANGED <<mgrVars, dp, mx, db, gpu, sa, ld>>

CallNaiveBubble ==
    /\ Pending
    /\ tk' = TopKCall("NaiveBubble", tk.input, tk.K, NaiveBubble_topk(tk.input, tk.K))
    /\ UNCHANGED <<mgrVars, dp, mx, db, gpu, sa, ld>>

CallNaiveUnstable ==
    /\ Pending
    /\ tk' = TopKCall("NaiveUnstable", tk.input, tk.K, NaiveUnstable_topk(tk.input, tk.K))
    /\ UNCHANGED <<mgrVars, dp, mx, db, gpu, sa, ld>>

CallQuickSelect ==
    /\ Pending
    /\ tk' = TopKCall("QuickSelect", tk.input, tk.K, QuickSelect_topk(tk.input, tk.K))
    /\ UNCHANGED <<mgrVars, dp, mx, db, gpu, sa, ld>>

CallQuickSelectIterative ==
    /\ Pending
    /\ tk' = TopKCall("QuickSelectIterative", tk.input, tk.K,
                      QuickSelectIterative_topk(tk.input, tk.K))
    /\ UNCHANGED <<mgrVars, dp, mx, db, gpu, sa, ld>>

CallMinHeap ==
    /\ Pending
    /\ tk' = TopKCall("MinHeap", tk.input, tk.K, MinHeap_topk(tk.input, tk.K))
    /\ UNCHANGED <<mgrVars, dp, mx, db, gpu, sa, ld>>

\* quickselect_max::<K>(&mut arr, &mut indices) with indices = 0..arr.len(),
\* as in tests::quickselect_works; the entry it returns is recorded.
CallQuickselectMax ==
    /\ Pending
    /\ LET q == quickselect_max(tk.input, [i \in 1..Len(tk.input) |-> i - 1], tk.K)
       IN  tk' = TopKCall("quickselect_max", tk.input, tk.K,
                          IF q.panic THEN Returned(TRUE, <<>>, q.data)
                          ELSE Returned(FALSE, <<q.entry>>, q.data))
    /\ UNCHANGED <<mgrVars, dp, mx, db, gpu, sa, ld>>

NextTopK ==
    \/ CallQuickselectMax
    \/ CallTopk
    \/ CallNaiveBubble
    \/ CallNaiveUnstable
    \/ CallQuickSelect
    \/ CallQuickSelectIterative
    \/ CallMinHeap

SpecTopK == InitTopK /\ [][NextTopK]_vars

\* ------------------------------------------------------------------------
\* Properties of the chunk manager
\* ------------------------------------------------------------------------

Inserted == last.op = "insert_vector"

LastRow == assignments[Len(assignments)]

\* The (chunk, slot) pairs, zero-based, whose assignment carries id.
SlotsIn(rows, id) ==
    {cs \in (0..(Len(rows) - 1)) \X (0..(num_vecs_per_chunk - 1)) :
        rows[cs[1] + 1].assignments[cs[2] + 1] = id}

SlotsOf(id) == SlotsIn(assignments, id)

\* The floats of chunk c at offsets s * D .. (s + 1) * D.
StoredIn(chs, c, s) == [i \in 1..num_dims |-> chs[c + 1][s * num_dims + i]]

StoredVector(c, s) == StoredIn(chunks, c, s)

ValidVectors == {v \in Vectors(num_dims) : Len(v) = num_dims}

\* A call of insert_vector with a vector of the wrong length, on a fresh id.
FreshAfterMismatch ==
    last.result = "DimensionalityMismatch" /\ ~contains_key(registry, last.id)

\* C1 (as stated): in the default build, insert_vector(id, _) with an id that
\* was already inserted returns DuplicateId(id) and leaves the registry, the
\* chunks and the assignments as they were, whatever the vector is.
C1_DuplicateAnyVector ==
    [][(~optimistic /\ last'.op = "insert_vector" /\ last'.id \in DOMAIN registry)
        => (/\ last'.result = "DuplicateId"
            /\ last'.err_id = last'.id
            /\ UNCHANGED mgrState)]_vars

\* C1 (amended): in the default build, insert_vector(id, v) with an id that
\* was already inserted and a vector v of length D returns DuplicateId(id) and
\* leaves the registry, the chunks and the assignments as they were.
C1_DuplicateLeavesState ==
    [][(/\ ~optimistic
        /\ last'.op = "insert_vector"
        /\ last'.id \in DOMAIN registry
        /\ Len(last'.vector) = num_dims)
        => (/\ last'.result = "DuplicateId"
            /\ last'.err_id = last'.id
            /\ UNCHANGED mgrState)]_vars

\* C1 witness: a duplicate was rejected while the last chunk was full and a
\* second chunk had already been filled in part or whole.
C1_Witness ==
    /\ ~optimistic
    /\ Inserted /\ last.result = "DuplicateId"
    /\ Len(last.vector) = num_dims
    /\ is_full(LastRow)

\* C2: a call that fails with DuplicateId after ensure_chunk_with_capacity
\* allocated a chunk leaves the number of chunks, the number of assignment
\* rows and max_vecs() as they were before the call.
C2_AllocationRolledBack ==
    [][(last'.op = "insert_vector" /\ last'.result = "DuplicateId" /\ last'.allocated)
        => (/\ Len(chunks') = Len(chunks)
            /\ Len(assignments') = Len(assignments)
            /\ max_vecs' = max_vecs)]_vars

\* C3: after insert_vector(id, v) returns Ok, id is in the registry, exactly
\* one slot s carries id and it lies in chunk registry[id], the floats of that
\* chunk at s * D .. (s + 1) * D equal v, and max_vecs() is unchanged or, if
\* the call added a chunk, larger by exactly vectors_per_chunk.
C3_InsertStores ==
    [][(last'.op = "insert_vector" /\ last'.result = "Ok")
        => (/\ last'.id \in DOMAIN registry'
            /\ Cardinality(SlotsIn(assignments', last'.id)) = 1
            /\ \A cs \in SlotsIn(assignments', last'.id) :
                  /\ cs[1] = registry'[last'.id]
                  /\ StoredIn(chunks', cs[1], cs[2]) = last'.vector
            /\ IF Len(chunks') = Len(chunks)
               THEN max_vecs' = max_vecs
               ELSE /\ Len(chunks') = Len(chunks) + 1
                    /\ max_vecs' = max_vecs + num_vecs_per_chunk)]_vars

\* C3 witness: an insertion of a vector of more than one float has succeeded
\* and has added a chunk, while chunk 0 holds a vector at a slot beyond slot 0.
C3_Witness ==
    /\ Inserted /\ last.result = "Ok"
    /\ last.allocated /\ last.chunk > 0
    /\ num_dims > 1
    /\ num_vecs_per_chunk > 1

\* C4: a LocalId is a key of the registry iff exactly one (chunk, slot) pair
\* carries it, and then the registry maps it to that chunk.
C4_RegistryMatchesSlots ==
    \A id \in LocalIds :
        /\ contains_key(registry, id) <=> Cardinality(SlotsOf(id)) = 1
        /\ contains_key(registry, id) =>
              \A cs \in SlotsOf(id) : registry[id] = cs[1]

\* C4 witness: ids live in two chunks and the last call was rejected.
C4_Witness ==
    /\ Inserted /\ last.result = "DuplicateId"
    /\ \E a, b \in DOMAIN registry : registry[a] # registry[b]

\* C5: every chunk holds at most vectors_per_chunk vectors, and a chunk with
\* a free slot is the last chunk.
C5_OnlyLastChunkHasRoom ==
    \A c \in 1..Len(assignments) :
        /\ IndexVectorAssignment_len(assignments[c]) <= num_vecs_per_chunk
        /\ IndexVectorAssignment_len(assignments[c]) < num_vecs_per_chunk
              => c = Len(assignments)

\* C5 witness: a full chunk followed by a last chunk with a free slot and an
\* occupied slot.
C5_Witness ==
    /\ Len(chunks) >= 2
    /\ IndexVectorAssignment_len(LastRow) > 0
    /\ ~is_full(LastRow)
    /\ num_vecs_per_chunk > 1

\* C6: in every chunk the occupied slots are exactly slots 0 .. count - 1, so
\* slot count of a chunk that is not full is empty.
C6_OccupiedSlotsFormPrefix ==
    \A c \in 1..Len(assignments) :
        /\ \A s \in 0..(num_vecs_per_chunk - 1) :
              assignments[c].assignments[s + 1] # NoneId
                  <=> s < IndexVectorAssignment_len(assignments[c])
        /\ ~is_full(assignments[c]) =>
              assignments[c].assignments[IndexVectorAssignment_len(assignments[c]) + 1]
                  = NoneId

\* C6 witness: a chunk with both occupied and free slots.
C6_Witness ==
    \E c \in 1..Len(assignments) :
        /\ IndexVectorAssignment_len(assignments[c]) > 1
        /\ ~is_full(assignments[c])

\* C7: the i-th successful insertion with i < vectors_per_chunk gets slot i
\* of chunk 0 and leaves one chunk; a chunk is added exactly by a successful
\* insertion that finds the last chunk full, which gets slot 0 of the new
\* chunk; so the second chunk appears with successful insertion number
\* vectors_per_chunk + 1.
C7_AllocationOnlyByInsertionIntoFullChunk ==
    [][/\ (last'.result = "Ok" /\ Cardinality(DOMAIN registry) < num_vecs_per_chunk)
            => (/\ assignments'[1].assignments[Cardinality(DOMAIN registry) + 1]
                      = last'.id
                /\ registry'[last'.id] = 0
                /\ Len(chunks') = 1)
       /\ (last'.result = "Ok" /\ is_full(LastRow))
            => Len(chunks') = Len(chunks) + 1
       /\ Len(chunks') # Len(chunks)
            => (/\ is_full(LastRow)
                /\ Len(chunks') = Len(chunks) + 1
                /\ last'.result = "Ok"
                /\ assignments'[Len(chunks')].assignments[1] = last'.id
                /\ registry'[last'.id] = Len(chunks') - 1)
       /\ (Len(chunks) = 1 /\ Len(chunks') = 2)
            => (last'.result = "Ok"
                /\ Cardinality(DOMAIN registry') = num_vecs_per_chunk + 1)]_vars

ReturnedIndices == {tk.entries[k].index : k \in 1..Len(tk.entries)}

\* Every returned entry is (i, s[i]) for an index i of the input s.
EntriesFromInput ==
    \A k \in 1..Len(tk.entries) :
        /\ tk.entries[k].index \in 0..(Len(tk.input) - 1)
        /\ tk.entries[k].value = At(tk.input, tk.entries[k].index)

\* Every returned score is >= every score at an index that was not returned.
ReturnedDominate ==
    \A k \in 1..Len(tk.entries) :
        \A j \in (0..(Len(tk.input) - 1)) \ ReturnedIndices :
            tk.entries[k].value >= At(tk.input, j)

\* C9: for every score vector of length N >= K >= 1, topk::<K> returns K
\* entries, each (i, s[i]) for an index i of the input, and every returned
\* score is >= every score not returned; for [30,3,1,12,2,11] and K = 3 the
\* returned set is {(0,30), (3,12), (5,11)}.
C9_TopkSound ==
    tk.impl = "topk" =>
        /\ ~tk.panic
        /\ Len(tk.entries) = tk.K
        /\ EntriesFromInput
        /\ ReturnedDominate
        /\ (tk.input = TestScores /\ tk.K = 3) =>
              {tk.entries[k] : k \in 1..3}
                  = {Entry(0, 30), Entry(3, 12), Entry(5, 11)}

\* C10: every selector returns K entries with pairwise distinct indices, so
\* two returned entries share a score only if that score occurs at two
\* distinct input indices.
C10_DistinctIndices ==
    (tk.impl \in {"NaiveBubble", "NaiveUnstable", "QuickSelect",
                  "QuickSelectIterative", "MinHeap"} /\ ~tk.panic) =>
        /\ Len(tk.entries) = tk.K
        /\ \A a, b \in 1..Len(tk.entries) :
              a # b => tk.entries[a].index # tk.entries[b].index
        /\ \A a, b \in 1..Len(tk.entries) :
              (a # b /\ tk.entries[a].value = tk.entries[b].value) =>
                  \E i, j \in 1..Len(tk.input) :
                      /\ i # j
                      /\ tk.input[i] = tk.entries[a].value
                      /\ tk.input[j] = tk.entries[a].value

\* ------------------------------------------------------------------------
\* Dot-product kernels: ReferenceDotProduct, ReferenceDotProductUnrolled,
\* ReferenceDotProductParallel, ReferenceDotProductParallelUnrolled
\* ------------------------------------------------------------------------

\* UNROLL_FACTOR ranges over 1..MaxUnroll.
MaxUnroll == 2

\* The data matrix has 1..MaxVecs rows.
MaxVecs == 3

\* Threads of the worker pool that runs a parallel kernel.
NumWorkers == 2

Workers == 1..NumWorkers

\* The thread that calls the kernel; it writes the results of the two
\* sequential kernels.
Caller == 0

\* D is UNROLL_FACTOR or twice UNROLL_FACTOR.
Blocks == {1, 2}

\* A float sequence of length n: the integers -2 .. 2 in an order set by seed.
Pattern(seed, n) == [i \in 1..n |-> ((i * seed) % 5) - 2]

QuerySeeds == {1, 2}

DataSeeds == {1, 3}

\* The arguments of the tests simple_works, unrolled_works, parallel_works
\* and parallel_unrolled_works, and the scores they expect.
TestQuery == <<1, 2, 3>>

TestData == <<4, -5, 6, 4, -5, 6, 0, 0, 0, 1, 1, 1>>

TestResults == <<12, 12, 0, 6>>

\* The content of the results buffer before the call (f32::NAN in
\* calculate_dot_products): no sum of the inputs above equals it.
NAN == 0 - 1000000

\* query.iter().zip(&data[start_index..]).fold(0.0, |sum, (&q, &r)| sum + r * q),
\* from pair d of the zip on.
RECURSIVE fold_zip(_, _, _, _, _)
fold_zip(query, data, start_index, d, sum) ==
    IF d >= Len(query) \/ start_index + d >= Len(data) THEN sum
    ELSE fold_zip(query, data, start_index, d + 1,
                  sum + At(data, start_index + d) * At(query, d))

\* The body of the loop over results of ReferenceDotProduct(Parallel).
reference_row_first(query, data, dims, v) ==
    fold_zip(query, data, 0, 0, 0)

reference_row(query, data, dims, v) ==
    fold_zip(query, data, v * dims, 0, 0)

\* unrolled_dots, from lane unroll on: sum[unroll] += r * q for every lane;
\* an index past the end of data or query panics.
RECURSIVE unrolled_dots(_, _, _, _, _, _)
unrolled_dots(query, data, query_start_index, data_start_index, sum, unroll) ==
    IF unroll >= Len(sum) THEN [panic |-> FALSE, sum |-> sum]
    ELSE IF \/ data_start_index + unroll >= Len(data)
            \/ query_start_index + unroll >= Len(query)
         THEN [panic |-> TRUE, sum |-> sum]
         ELSE unrolled_dots(query, data, query_start_index, data_start_index,
                  [sum EXCEPT ![unroll + 1] =
                      @ + At(data, data_start_index + unroll)
                          * At(query, query_start_index + unroll)],
                  unroll + 1)

\* for d in (0..num_dims).step_by(UNROLL_FACTOR) { unrolled_dots(..) }
RECURSIVE unrolled_steps(_, _, _, _, _, _)
unrolled_steps(query, data, dims, start_index, d, sum) ==
    IF d >= dims THEN [panic |-> FALSE, sum |-> sum]
    ELSE LET r == unrolled_dots(query, data, d, start_index + d, sum, 0)
         IN  IF r.panic THEN r
             ELSE unrolled_steps(query, data, dims, start_index,
                                 d + Len(sum), r.sum)

\* sum.iter().sum()
RECURSIVE iter_sum(_)
iter_sum(s) == IF s = <<>> THEN 0 ELSE Head(s) + iter_sum(Tail(s))

\* The body of the loop over results of ReferenceDotProduct(Parallel)Unrolled.
unrolled_row(query, data, dims, U, v) ==
    LET r == unrolled_steps(query, data, dims, v * dims, 0,
                            [u \in 1..U |-> 0])
    IN  [panic |-> r.panic, sum |-> iter_sum(r.sum)]

\* What the closure of kernel impl computes for row v.
row(impl, query, data, dims, U, v) ==
    IF impl \in {"Reference", "Parallel"}
    THEN [panic |-> FALSE, sum |-> reference_row(query, data, dims, v)]
    ELSE unrolled_row(query, data, dims, U, v)

\* for (v, result) in results.iter_mut().enumerate() { *result = sum }
\* on the calling thread.
sequential(impl, query, data, dims, U, results) ==
    LET rows == [i \in 1..Len(results) |-> row(impl, query, data, dims, U, i - 1)]
    IN  [panic |-> \E i \in 1..Len(results) : rows[i].panic,
         results |-> [i \in 1..Len(results) |-> rows[i].sum]]

\* A kernel call: its arguments, the results buffer, how often and by whom
\* each element of results was written, the indices par_iter_mut() has not
\* handed out yet, and for each worker the element it holds and the sum it
\* computed for it.
Idle == [v |-> 0 - 1, sum |-> 0]

DotCall(impl, U, query, data, dims, num_vecs) ==
    [impl |-> impl, phase |-> "pending", U |-> U,
     query |-> query, data |-> data, num_dims |-> dims, num_vecs |-> num_vecs,
     results |-> [i \in 1..num_vecs |-> NAN],
     writes |-> [i \in 1..num_vecs |-> 0],
     writer |-> [i \in 1..num_vecs |-> Caller],
     pool |-> {}, held |-> [w \in Workers |-> Idle], panic |-> FALSE]

DotInputs ==
    {DotCall("none", U, Pattern(qs, U * b), Pattern(ds, n * U * b), U * b, n) :
        U \in 1..MaxUnroll, b \in Blocks, n \in 1..MaxVecs,
        qs \in QuerySeeds, ds \in DataSeeds}
    \cup {DotCall("none", 3, TestQuery, TestData, 3, 4)}

InitDot ==
    /\ IdleManager
    /\ tk = NoTopK
    /\ mx = NoMatrix
    /\ db = NoVecDb
    /\ gpu = NoGpu
    /\ sa = NoAssignment
    /\ ld = NoLoad
    /\ dp \in DotInputs

DotPending == dp.impl = "none" /\ dp.phase = "pending"

\* A sequential kernel: the whole call is one step of the calling thread.
CallSequential(impl) ==
    /\ DotPending
    /\ LET r == sequential(impl, dp.query, dp.data, dp.num_dims, dp.U, dp.results)
       IN  dp' = [dp EXCEPT !.impl = impl, !.phase = "returned",
                            !.panic = r.panic,
                            !.results = IF r.panic THEN dp.results ELSE r.results,
                            !.writes = [i \in 1..dp.num_vecs |->
                                           IF r.panic THEN 0 ELSE 1]]
    /\ UNCHANGED <<mgrVars, tk, mx, db, gpu, sa, ld>>

CallReference == CallSequential("Reference")

CallUnrolled == CallSequential("Unrolled")

\* results.par_iter_mut().enumerate(): the elements of results, each paired
\* with its index, to be handed out to the workers.
par_iter_mut(results) == {i - 1 : i \in 1..Len(results)}

\* A parallel kernel starts: for_each distributes the elements.
CallParallelKernel(impl) ==
    /\ DotPending
    /\ dp' = [dp EXCEPT !.impl = impl, !.phase = "running",
                         !.pool = par_iter_mut(dp.results)]
    /\ UNCHANGED <<mgrVars, tk, mx, db, gpu, sa, ld>>

CallParallel == CallParallelKernel("Parallel")

CallParallelUnrolled == CallParallelKernel("ParallelUnrolled")

\* An idle worker takes element v and runs the closure up to the store: it
\* accumulates the sum of row v on its own stack.
Take(w) ==
    /\ dp.impl \in {"Parallel", "ParallelUnrolled"}
    /\ dp.phase = "running"
    /\ dp.held[w] = Idle
    /\ \E v \in dp.pool :
          LET r == row(dp.impl, dp.query, dp.data, dp.num_dims, dp.U, v)
          IN  dp' = [dp EXCEPT !.pool = @ \ {v},
                               !.held[w] = [v |-> v, sum |-> r.sum],
                               !.panic = @ \/ r.panic]
    /\ UNCHANGED <<mgrVars, tk, mx, db, gpu, sa, ld>>

\* The worker stores its sum: *result = sum.
Store(w) ==
    /\ dp.impl \in {"Parallel", "ParallelUnrolled"}
    /\ dp.phase = "running"
    /\ dp.held[w] # Idle
    /\ LET v == dp.held[w].v
       IN  dp' = [dp EXCEPT !.results[v + 1] = dp.held[w].sum,
                            !.writes[v + 1] = @ + 1,
                            !.writer[v + 1] = w,
                            !.held[w] = Idle]
    /\ UNCHANGED <<mgrVars, tk, mx, db, gpu, sa, ld>>

\* for_each returns to the caller once every element was consumed and every
\* worker finished its closure.
for_each_done_early(call) == call.pool = {}

for_each_done(call) ==
    /\ call.pool = {}
    /\ \A w \in Workers : call.held[w] = Idle

Join ==
    /\ dp.impl \in {"Parallel", "ParallelUnrolled"}
    /\ dp.phase = "running"
    /\ for_each_done(dp)
    /\ dp' = [dp EXCEPT !.phase = "returned"]
    /\ UNCHANGED <<mgrVars, tk, mx, db, gpu, sa, ld>>

NextDot ==
    \/ CallReference
    \/ CallUnrolled
    \/ CallParallel
    \/ CallParallelUnrolled
    \/ \E w \in Workers : Take(w)
    \/ \E w \in Workers : Store(w)
    \/ Join

SpecDot == InitDot /\ [][NextDot]_vars

\* The inner product of the query with row v of the data matrix.
RECURSIVE DotSum(_, _, _, _, _)
DotSum(query, data, dims, v, d) ==
    IF d = 0 THEN 0
    ELSE DotSum(query, data, dims, v, d - 1)
         + query[d] * data[v * dims + d]

\* C11: whichever of the four CPU kernels was called (with D a multiple of
\* U), once the call has returned results[v] is the sum over d of
\* query[d] * data[v * D + d] for every row v, so all four kernels return
\* the same scores; for q = [1,2,3] and M = [[4,-5,6],[4,-5,6],[0,0,0],[1,1,1]]
\* the scores are [12, 12, 0, 6].
C11_KernelsComputeInnerProducts ==
    dp.phase = "returned" =>
        /\ ~dp.panic
        /\ Len(dp.results) = dp.num_vecs
        /\ \A v \in 0..(dp.num_vecs - 1) :
              At(dp.results, v) = DotSum(dp.query, dp.data, dp.num_dims, v, dp.num_dims)
        /\ (dp.query = TestQuery /\ dp.data = TestData) => dp.results = TestResults

\* C11 witness: the unrolled parallel kernel has returned the scores of the
\* test matrix.
C11_Witness ==
    /\ dp.phase = "returned"
    /\ dp.impl = "ParallelUnrolled"
    /\ dp.query = TestQuery
    /\ dp.data = TestData
    /\ dp.results = TestResults

\* C12: in a call of a parallel kernel, under every interleaving of the
\* workers, no element of results is ever written twice, every write is
\* done by a worker of the pool to an index in 0..N, the worker that stores
\* a row's sum is the one that accumulated it, and when the call has
\* returned every index in 0..N was written exactly once and results equals
\* what the sequential kernel computes.
C12_EachIndexWrittenOnce ==
    dp.impl \in {"Parallel", "ParallelUnrolled"} =>
        /\ DOMAIN dp.results = 1..dp.num_vecs
        /\ \A i \in 1..dp.num_vecs :
              /\ dp.writes[i] <= 1
              /\ dp.writes[i] = 1 => dp.writer[i] \in Workers
              /\ dp.writes[i] = 0 => dp.results[i] = NAN
        /\ \A w, x \in Workers :
              (w # x /\ dp.held[w] # Idle) => dp.held[w].v # dp.held[x].v
        /\ \A w \in Workers :
              dp.held[w] # Idle =>
                  /\ dp.held[w].v \in 0..(dp.num_vecs - 1)
                  /\ dp.writes[dp.held[w].v + 1] = 0
        /\ dp.phase = "returned" =>
              /\ \A i \in 1..dp.num_vecs : dp.writes[i] = 1
              /\ dp.results = sequential("Reference", dp.query, dp.data, dp.num_dims,
                                         dp.U, dp.results).results

\* C12 witness: a parallel call has returned after both workers wrote rows.
C12_Witness ==
    /\ dp.impl = "Parallel"
    /\ dp.phase = "returned"
    /\ \E i, j \in 1..dp.num_vecs : dp.writer[i] = 1 /\ dp.writer[j] = 2

\* ------------------------------------------------------------------------
\* AnySizeMemoryChunk: the runtime-sized matrix of the query path
\* ------------------------------------------------------------------------

\* A matrix is doubled at most MaxDoubles times.
MaxDoubles == 1

\* use_num_vecs is called with 0 .. MaxVecs + 1.
UseCounts == 0..(MaxVecs + 1)

\* Dimensionalities handed to AnySizeMemoryChunk::new: one that is not a
\* multiple of 16 and the smallest that is.
MatrixDims == {8, 16}

\* std::mem::size_of::<f32>()
SIZE_OF_F32 == 4

\* alloc_madvise::Memory: allocate(num_bytes, ..) yields num_bytes / 4 floats
\* (zeroed here), len() is the number of bytes of the allocation.
Memory_allocate(num_bytes) == [i \in 1..(num_bytes \div SIZE_OF_F32) |-> 0]

Memory_len(data) == Len(data) * SIZE_OF_F32

\* The floats of a matrix of n elements: left zeroed, or filled with n
\* pairwise different values.
MatrixFills(n) == {[i \in 1..n |-> 0], Ramp(1, n)}

\* AnySizeMemoryChunk::new: panics unless num_dimensions is a multiple of 16.
AnySizeMemoryChunk_new(num_vectors, num_dimensions) ==
    IF num_dimensions % 16 # 0
    THEN [panic |-> TRUE, num_vecs |-> num_vectors, virt_num_vecs |-> num_vectors,
          num_dims |-> num_dimensions, data |-> <<>>]
    ELSE [panic |-> FALSE, num_vecs |-> num_vectors, virt_num_vecs |-> num_vectors,
          num_dims |-> num_dimensions,
          data |-> Memory_allocate(num_vectors * num_dimensions * SIZE_OF_F32)]

\* AnySizeMemoryChunk::use_num_vecs: 0 => self.num_vecs, x => x.min(self.data.len()).
use_num_vecs(m, x) ==
    [m EXCEPT !.virt_num_vecs =
        IF x = 0 THEN m.num_vecs ELSE Min(x, Memory_len(m.data))]

\* AsRef<[f32]>::as_ref: &data[..num_dims * virt_num_vecs]; the slice panics
\* when its end lies behind the allocation.
as_ref(m) ==
    IF m.num_dims * m.virt_num_vecs > Len(m.data)
    THEN [panic |-> TRUE, slice |-> <<>>]
    ELSE [panic |-> FALSE, slice |-> SubSeq(m.data, 1, m.num_dims * m.virt_num_vecs)]

\* AnySizeMemoryChunk::num_vecs
matrix_num_vecs(m) == m.virt_num_vecs

\* AnySizeMemoryChunk::double
double(m) ==
    [m EXCEPT !.num_vecs = 2 * @, !.virt_num_vecs = 2 * @, !.data = m.data \o m.data]

\* transpose::transpose(input, output, input_width, input_height):
\* output[x * input_height + y] = input[y * input_width + x].
transpose(input, input_width, input_height) ==
    [i \in 1..Len(input) |->
        LET x == (i - 1) \div input_height
            y == (i - 1) % input_height
        IN  input[y * input_width + x + 1]]

\* AnySizeMemoryChunk::as_transposed: a new chunk of the same num_vecs and
\* num_dims, filled by transpose(src, dst, num_dims, num_vecs); with debug
\* assertions it panics unless src[0] = dst[0] and src[1] = dst[num_vecs].
as_transposed(m, debug) ==
    LET fresh == AnySizeMemoryChunk_new(m.num_vecs, m.num_dims)
        dst == transpose(m.data, m.num_dims, m.num_vecs)
    IN  [fresh EXCEPT
            !.data = dst,
            !.panic = \/ fresh.panic
                      \/ m.num_dims * m.num_vecs # Len(m.data)
                      \/ debug /\ (At(m.data, 0) # At(dst, 0)
                                   \/ At(m.data, 1) # At(dst, m.num_vecs))]

\* A matrix, the last operation on it with its argument, what as_ref() and
\* num_vecs() returned before that operation, the floats the matrix had
\* when it was constructed or last doubled, how many as_transposed calls
\* were made since, and how many double() calls were made.
MatrixOp(op, arg, m, debug, constructed, before, base, transposes, doubles) ==
    [op |-> op, arg |-> arg, panic |-> m.panic, debug |-> debug,
     num_vecs |-> m.num_vecs, virt_num_vecs |-> m.virt_num_vecs,
     num_dims |-> m.num_dims, data |-> m.data,
     constructed |-> constructed, before |-> before,
     base |-> base, transposes |-> transposes, doubles |-> doubles]

\* as_ref() and num_vecs() of a matrix.
Observed(m) == [as_ref |-> as_ref(m), num_vecs |-> matrix_num_vecs(m)]

\* AnySizeMemoryChunk::new(N, D, hint), filled through as_mut().
InitMatrix ==
    /\ IdleManager
    /\ tk = NoTopK
    /\ dp = NoDotProduct
    /\ db = NoVecDb
    /\ gpu = NoGpu
    /\ sa = NoAssignment
    /\ ld = NoLoad
    /\ \E N \in 1..MaxVecs, D \in MatrixDims, debug \in BOOLEAN :
          LET m == AnySizeMemoryChunk_new(N, D)
          IN  \E fill \in MatrixFills(Len(m.data)) :
                 LET f == [m EXCEPT !.data = fill]
                 IN  mx = MatrixOp("new", N, f, debug, N, Observed(f),
                                   f.data, 0, 0)

UseNumVecs ==
    /\ ~mx.panic
    /\ \E x \in UseCounts :
          mx' = MatrixOp("use_num_vecs", x, use_num_vecs(mx, x), mx.debug,
                         mx.constructed, Observed(mx), mx.base, mx.transposes,
                         mx.doubles)
    /\ UNCHANGED <<mgrVars, tk, dp, db, gpu, sa, ld>>

Double ==
    /\ ~mx.panic
    /\ mx.doubles < MaxDoubles
    /\ mx' = MatrixOp("double", 0, double(mx), mx.debug, mx.constructed,
                      Observed(mx), mx.data \o mx.data, 0, mx.doubles + 1)
    /\ UNCHANGED <<mgrVars, tk, dp, db, gpu, sa, ld>>

\* as_transposed, and the caller goes on with the chunk it returned.
AsTransposed ==
    /\ ~mx.panic
    /\ mx.transposes < 2
    /\ mx' = MatrixOp("as_transposed", 0, as_transposed(mx, mx.debug), mx.debug,
                      mx.constructed, Observed(mx), mx.base,
                      mx.transposes + 1, mx.doubles)
    /\ UNCHANGED <<mgrVars, tk, dp, db, gpu, sa, ld>>

NextMatrix ==
    \/ UseNumVecs
    \/ Double
    \/ AsTransposed

SpecMatrix == InitMatrix /\ [][NextMatrix]_vars

\* C13: after use_num_vecs(x) on a matrix constructed with N vectors (and
\* not doubled since) num_vecs() is min(x, N) for x > 0 and N for x = 0; the
\* visible count never exceeds N, and as_ref() lies inside the allocation.
C13_VirtualCountWithinN ==
    (~mx.panic /\ mx.op # "none" /\ mx.doubles = 0) =>
        /\ mx.op = "use_num_vecs" =>
              matrix_num_vecs(mx) = IF mx.arg = 0 THEN mx.constructed
                                    ELSE Min(mx.arg, mx.constructed)
        /\ matrix_num_vecs(mx) <= mx.constructed
        /\ ~as_ref(mx).panic
        /\ Len(as_ref(mx).slice) = mx.num_dims * matrix_num_vecs(mx)

\* C14: after double(), as_ref() is the slice as_ref() returned before the
\* call concatenated with itself, and num_vecs() is twice what it was, also
\* when use_num_vecs had narrowed the view before.
C14_DoubleConcatenatesView ==
    (mx.op = "double" /\ ~mx.before.as_ref.panic) =>
        /\ ~as_ref(mx).panic
        /\ as_ref(mx).slice = mx.before.as_ref.slice \o mx.before.as_ref.slice
        /\ matrix_num_vecs(mx) = 2 * mx.before.num_vecs

\* C15: as_transposed applied to the result of as_transposed(M) yields a
\* buffer element-wise equal to M, for every N and D.
C15_TransposeInvolution ==
    (mx.op = "as_transposed" /\ mx.transposes = 2) =>
        /\ ~mx.panic
        /\ mx.data = mx.base

\* ------------------------------------------------------------------------
\* VecDb: the memory-mapped vector file and its writers
\* ------------------------------------------------------------------------

\* A file is created for 0..MaxDbVecs vectors ...
MaxDbVecs == 2

\* ... of 1..MaxDbDims dimensions.
MaxDbDims == 2

\* VecDb::HEADER_SIZE
HEADER_SIZE == 16

\* A usize is hi * 2^32 + lo with lo < 2^32; a u32 (and the bit pattern of
\* an f32) is the pair of its upper and its lower 16 bits.
Usize(hi, lo) == [hi |-> hi, lo |-> lo]

\* u32::MAX
U32_MAX == <<65535, 65535>>

\* f32 values by their bit patterns (f32::to_bits): 0.0 = 0x00000000,
\* 1.0 = 0x3F800000, 0.1 = 0x3DCCCCCD, -2.0 = 0xC0000000.
F32Bits == <<<<0, 0>>, <<16256, 0>>, <<15820, 52429>>, <<49152, 0>>>>

\* The vector of n floats that starts at position seed of F32Bits and cycles.
DbVector(seed, n) == [i \in 1..n |-> F32Bits[((seed + i) % Len(F32Bits)) + 1]]

DbSeeds == {0, 1}

\* (N, D) handed to the writers: the small ones, the N = 2, D = 16 of a
\* 144-byte file, and a dimensionality that does not fit a u32.
DbShapes ==
    {<<Usize(0, n), Usize(0, d)>> : n \in 0..MaxDbVecs, d \in 1..MaxDbDims}
    \cup {<<Usize(0, 2), Usize(0, 16)>>, <<Usize(0, 0), Usize(1, 0)>>}

\* Vectors and buffers handed to write_vec and read_vec_into for a file of
\* dimensionality dims: of length dims and one shorter or longer (lengths
\* that can be enumerated only).
DbLengths(dims) ==
    IF dims.hi = 0
    THEN {n \in {dims.lo - 1, dims.lo, dims.lo + 1} : n >= 0 /\ n <= 17}
    ELSE {0, 1}

DbVectors(dims) == {DbVector(s, n) : s \in DbSeeds, n \in DbLengths(dims)}

\* `x as u32`: the lower 32 bits.
as_u32(x) == <<x.lo \div 65536, x.lo % 65536>>

\* `value as usize` of a u32 (From<u32> for NumVectors / NumDimensions).
from_u32(x) == Usize(0, x[1] * 65536 + x[2])

\* vec.len() as a usize.
len_of(vec) == Usize(0, Len(vec))

\* a * 4 * b of two usize values, for products below 2^31.
times4(a, b) ==
    IF (a.hi = 0 /\ a.lo = 0) \/ (b.hi = 0 /\ b.lo = 0) THEN 0
    ELSE a.lo * 4 * b.lo

\* tokio AsyncWriteExt::write_u32 / write_f32 (of the bit pattern): the four
\* bytes in big-endian order.
to_le_bytes(x) ==
    <<x[2] % 256, x[2] \div 256, x[1] % 256, x[1] \div 256>>

to_be_bytes(x) ==
    <<x[1] \div 256, x[1] % 256, x[2] \div 256, x[2] % 256>>

\* tokio AsyncReadExt::read_u32 / read_f32: big-endian.
from_le_bytes(b) == <<b[4] * 256 + b[3], b[2] * 256 + b[1]>>

from_be_bytes(b) == <<b[1] * 256 + b[2], b[3] * 256 + b[4]>>

RECURSIVE encode(_)
encode(values) ==
    IF values = <<>> THEN <<>> ELSE to_be_bytes(Head(values)) \o encode(Tail(values))

\* AsyncOptions .create(true).truncate(true).max_size(len).len(len): a
\* zero-filled file of len bytes, mapped whole.
create(len) == [i \in 1..len |-> 0]

\* write_all on the writer of the mapping at offset pos: the bytes that fit
\* are stored; the write fails (WriteZero) when the mapping ends first.
write_all(file, pos, bytes) ==
    LET fit == Min(Len(bytes), Len(file) - pos)
    IN  [ok |-> fit = Len(bytes),
         file |-> [i \in 1..Len(file) |->
                     IF i > pos /\ i <= pos + fit THEN bytes[i - pos] ELSE file[i]]]

\* The four header fields written through writer(0).
header(num_vectors, num_dimensions) ==
    encode(<<<<0, 0>>, U32_MAX, as_u32(num_vectors), as_u32(num_dimensions)>>)

\* Reading n big-endian 4-byte values at offset pos; fails (UnexpectedEof)
\* when the mapping ends first.
read_values(file, pos, n) ==
    IF pos + 4 * n > Len(file) THEN [ok |-> FALSE, values |-> <<>>]
    ELSE [ok |-> TRUE,
          values |-> [i \in 1..n |->
                        from_be_bytes(SubSeq(file, pos + 4 * (i - 1) + 1, pos + 4 * i))]]

\* VecDb::vec_stride
vec_stride(num_dimensions) == 4 * num_dimensions.lo

\* The length the writers create the file with.
open_write_len(num_vectors, num_dimensions) ==
    times4(num_vectors, num_dimensions) + HEADER_SIZE

fetch_vectors_bin_len(num_vectors, num_dimensions) ==
    times4(num_vectors, num_dimensions) + HEADER_SIZE

fetch_vectors_example_len(num_vectors, num_dimensions) ==
    times4(num_vectors, num_dimensions)

\* The file and the VecDb handle on it (mode "none": not opened, "closed":
\* dropped or panicked), the last operation with its argument, its result
\* ("Ok", "Err", "Panic") and the value it returned, the shape the file was
\* created for and by which writer, the vectors written by write_vec, the
\* vectors read by read_vec / read_vec_into since open_read, and whether
\* those were the only reads since.
VecDbState(shape) ==
    [op |-> "none", arg |-> <<>>, result |-> "Ok", ret |-> 0,
     N |-> shape[1], D |-> shape[2], creator |-> "none",
     exists |-> FALSE, file |-> <<>>, mode |-> "none",
     num_vectors |-> Usize(0, 0), num_dimensions |-> Usize(0, 0), pos |-> 0,
     written |-> <<>>, reads |-> <<>>, plain |-> TRUE]

\* Files found at the path that no writer of this program produced: a
\* 16-byte header whose version field is not 0 (announcing no vectors).
OtherVersions == {<<0, 1>>, <<256, 0>>}

ExistingFiles ==
    {encode(<<version, U32_MAX, <<0, 0>>, <<0, 1>>>>) : version \in OtherVersions}

InitVecDb ==
    /\ IdleManager
    /\ tk = NoTopK
    /\ dp = NoDotProduct
    /\ mx = NoMatrix
    /\ gpu = NoGpu
    /\ sa = NoAssignment
    /\ ld = NoLoad
    /\ \/ \E shape \in DbShapes :
             db = VecDbState(shape)
       \/ \E file \in ExistingFiles :
             db = [VecDbState(<<Usize(0, 0), Usize(0, 1)>>) EXCEPT
                     !.creator = "other", !.exists = TRUE,
                     !.file = file, !.mode = "closed"]

\* VecDb::open_write(path, N, D)
OpenWrite ==
    /\ db.mode = "none"
    /\ ~db.exists
    /\ LET w == write_all(create(open_write_len(db.N, db.D)), 0, header(db.N, db.D))
       IN  db' = [db EXCEPT !.op = "open_write", !.creator = "open_write",
                            !.exists = TRUE, !.file = w.file,
                            !.result = IF w.ok THEN "Ok" ELSE "Err",
                            !.mode = IF w.ok THEN "write" ELSE "closed",
                            !.num_vectors = db.N, !.num_dimensions = db.D,
                            !.pos = HEADER_SIZE]
    /\ UNCHANGED <<mgrVars, tk, dp, mx, gpu, sa, ld>>

\* The ingestion tools: create the file, write the header, then store the N
\* rows of the table (row k is DbVector(k, D)).  The tool of src/bins
\* returns the error of a failed write, the one of src/examples unwraps it.
RECURSIVE rows(_, _)
rows(n, dims) == IF n = 0 THEN <<>> ELSE rows(n - 1, dims) \o DbVector(n, dims)

FetchVectors(tool, len, unwraps) ==
    /\ db.mode = "none"
    /\ ~db.exists
    /\ db.D.hi = 0
    /\ LET h == write_all(create(len), 0, header(db.N, db.D))
           w == write_all(h.file, HEADER_SIZE, encode(rows(db.N.lo, db.D.lo)))
       IN  db' = [db EXCEPT !.op = tool, !.creator = tool,
                            !.exists = TRUE,
                            !.file = IF h.ok THEN w.file ELSE h.file,
                            !.result = IF ~h.ok THEN "Panic"
                                       ELSE IF w.ok THEN "Ok"
                                       ELSE IF unwraps THEN "Panic" ELSE "Err",
                            !.mode = "closed"]
    /\ UNCHANGED <<mgrVars, tk, dp, mx, gpu, sa, ld>>

FetchVectorsBin ==
    FetchVectors("bins/fetch_vectors", fetch_vectors_bin_len(db.N, db.D), FALSE)

FetchVectorsExample ==
    FetchVectors("examples/fetch_vectors", fetch_vectors_example_len(db.N, db.D), TRUE)

\* VecDb::write_vec(vec): assert_eq! on the length, writer(pos).unwrap(),
\* one write_f32 per float, then pos += vec_stride().  At the end of the
\* mapping either writer() fails (and unwrap panics) or the first write does.
WriteVec ==
    /\ db.mode = "write"
    /\ \E vec \in DbVectors(db.num_dimensions), eof_at_writer \in BOOLEAN :
          LET w == write_all(db.file, db.pos, encode(vec))
          IN  db' =
                IF len_of(vec) # db.num_dimensions
                THEN [db EXCEPT !.op = "write_vec", !.arg = vec,
                                !.result = "Panic", !.mode = "closed"]
                ELSE IF db.pos >= Len(db.file) /\ eof_at_writer
                THEN [db EXCEPT !.op = "write_vec", !.arg = vec,
                                !.result = "Panic", !.mode = "closed"]
                ELSE IF ~w.ok
                THEN [db EXCEPT !.op = "write_vec", !.arg = vec,
                                !.result = "Err", !.file = w.file]
                ELSE [db EXCEPT !.op = "write_vec", !.arg = vec,
                                !.result = "Ok", !.file = w.file,
                                !.pos = @ + vec_stride(db.num_dimensions),
                                !.written = Append(@, vec)]
    /\ UNCHANGED <<mgrVars, tk, dp, mx, gpu, sa, ld>>

\* VecDb::open_read(path), after the writer was dropped: reads the header,
\* asserts version = 0.
OpenRead ==
    /\ db.exists
    /\ db.mode \in {"write", "closed"}
    /\ db.op # "open_read"
    /\ LET h == read_values(db.file, 0, 4)
       IN  db' =
             IF ~h.ok
             THEN [db EXCEPT !.op = "open_read", !.arg = <<>>,
                             !.result = "Err", !.mode = "closed"]
             ELSE IF h.values[1] # <<0, 0>>
             THEN [db EXCEPT !.op = "open_read", !.arg = <<>>,
                             !.result = "Panic", !.mode = "closed"]
             ELSE [db EXCEPT !.op = "open_read", !.arg = <<>>,
                             !.result = "Ok", !.mode = "read",
                             !.num_vectors = from_u32(h.values[3]),
                             !.num_dimensions = from_u32(h.values[4]),
                             !.pos = HEADER_SIZE, !.reads = <<>>, !.plain = TRUE]
    /\ UNCHANGED <<mgrVars, tk, dp, mx, gpu, sa, ld>>

\* VecDb::read_vec
\* The vectors read one by one since open_read are recorded up to one more
\* than the header announces.
MayRead == Len(db.reads) <= db.num_vectors.lo

ReadVec ==
    /\ db.mode = "read"
    /\ MayRead
    /\ LET r == read_values(db.file, db.pos, db.num_dimensions.lo)
       IN  db' =
             IF ~r.ok
             THEN [db EXCEPT !.op = "read_vec", !.arg = <<>>, !.result = "Err",
                             !.ret = <<>>]
             ELSE [db EXCEPT !.op = "read_vec", !.arg = <<>>, !.result = "Ok",
                             !.ret = r.values,
                             !.pos = @ + vec_stride(db.num_dimensions),
                             !.reads = Append(@, r.values)]
    /\ UNCHANGED <<mgrVars, tk, dp, mx, gpu, sa, ld>>

\* VecDb::read_vec_into(buf), buf given by its length: assert_eq! on the
\* length, then as read_vec.
ReadVecInto ==
    /\ db.mode = "read"
    /\ MayRead
    /\ \E len \in DbLengths(db.num_dimensions) :
          LET r == read_values(db.file, db.pos, db.num_dimensions.lo)
          IN  db' =
                IF Usize(0, len) # db.num_dimensions
                THEN [db EXCEPT !.op = "read_vec_into", !.arg = len,
                                !.result = "Panic", !.mode = "closed"]
                ELSE IF ~r.ok
                THEN [db EXCEPT !.op = "read_vec_into", !.arg = len,
                                !.result = "Err", !.ret = <<>>]
                ELSE [db EXCEPT !.op = "read_vec_into", !.arg = len,
                                !.result = "Ok", !.ret = r.values,
                                !.pos = @ + vec_stride(db.num_dimensions),
                                !.reads = Append(@, r.values)]
    /\ UNCHANGED <<mgrVars, tk, dp, mx, gpu, sa, ld>>

\* The loop of VecDb::read_all_vecs from iteration v on, with a callback
\* that returns false on its invocation number stop (never, if stop = 0).
\* The reader starts at the pos of the call (start) and reads on
\* sequentially; self.pos advances only after the callback returned true.
RECURSIVE read_all_loop(_, _, _, _, _, _, _)
read_all_loop(file, start, pos, nv, nd, stop, v) ==
    IF v >= nv THEN [result |-> "Ok", ret |-> nv, pos |-> pos]
    ELSE IF ~read_values(file, start + v * vec_stride(nd), nd.lo).ok
    THEN [result |-> "Err", ret |-> 0, pos |-> pos]
    ELSE IF stop = v + 1 THEN [result |-> "Ok", ret |-> v + 1, pos |-> pos]
    ELSE read_all_loop(file, start, pos + vec_stride(nd), nv, nd, stop, v + 1)

read_all_vecs(file, pos, nv, nd, stop) ==
    read_all_loop(file, pos, pos, nv, nd, stop, 0)

ReadAllVecs ==
    /\ db.mode = "read"
    /\ \E stop \in 0..db.num_vectors.lo :
          LET r == read_all_vecs(db.file, db.pos, db.num_vectors.lo,
                                 db.num_dimensions, stop)
          IN  db' = [db EXCEPT !.op = "read_all_vecs", !.arg = stop,
                               !.result = r.result, !.ret = r.ret,
                               !.pos = r.pos, !.plain = FALSE]
    /\ UNCHANGED <<mgrVars, tk, dp, mx, gpu, sa, ld>>

NextVecDb ==
    \/ OpenWrite
    \/ FetchVectorsBin
    \/ FetchVectorsExample
    \/ WriteVec
    \/ OpenRead
    \/ ReadVec
    \/ ReadVecInto
    \/ ReadAllVecs

SpecVecDb == InitVecDb /\ [][NextVecDb]_vars

\* ------------------------------------------------------------------------
\* Properties of the VecDb file
\* ------------------------------------------------------------------------

\* The little-endian encoding of a sequence of 32-bit values.
RECURSIVE encode_le(_)
encode_le(values) ==
    IF values = <<>> THEN <<>>
    ELSE to_le_bytes(Head(values)) \o encode_le(Tail(values))

\* C16: after open_write(path, N, D) bytes 0..16 of the file are the
\* little-endian encodings of version 0, padding 0xFFFFFFFF, N and D (for
\* N = 2, D = 16: 00 00 00 00 FF FF FF FF 02 00 00 00 10 00 00 00), and a
\* successful write_vec has stored every float as 4 little-endian bytes.
C16_LittleEndianLayout ==
    /\ (db.op = "open_write" /\ db.result = "Ok") =>
          /\ SubSeq(db.file, 1, HEADER_SIZE)
                = encode_le(<<<<0, 0>>, U32_MAX, as_u32(db.N), as_u32(db.D)>>)
          /\ (db.N = Usize(0, 2) /\ db.D = Usize(0, 16)) =>
                SubSeq(db.file, 1, HEADER_SIZE)
                  = <<0, 0, 0, 0, 255, 255, 255, 255, 2, 0, 0, 0, 16, 0, 0, 0>>
    /\ (db.op = "write_vec" /\ db.result = "Ok") =>
          SubSeq(db.file, db.pos - vec_stride(db.num_dimensions) + 1, db.pos)
            = encode_le(db.arg)

\* C17: whichever writer created the file (open_write or one of the two
\* ingestion tools), its length is exactly 16 + 4 * N * D bytes.
C17_FileLength ==
    (db.exists /\ db.creator # "other") =>
        Len(db.file) = HEADER_SIZE + times4(db.N, db.D)

\* All N vectors were written through open_write / write_vec, the file was
\* opened with open_read and read with read_vec / read_vec_into only.
RoundTrip ==
    /\ db.creator = "open_write"
    /\ len_of(db.written) = db.N
    /\ db.mode = "read"
    /\ db.plain

\* The reader sees the header and the vectors that were written: the i-th
\* vector read is bit-identical to the i-th vector written, and a read
\* fails only when all N vectors have been read.
ReadsWhatWasWritten ==
    /\ db.num_vectors = db.N
    /\ db.num_dimensions = db.D
    /\ Len(db.reads) <= Len(db.written)
    /\ \A i \in 1..Len(db.reads) : db.reads[i] = db.written[i]
    /\ (db.op \in {"read_vec", "read_vec_into"} /\ db.result = "Err") =>
          Len(db.reads) = Len(db.written)
    /\ (db.op \in {"read_vec", "read_vec_into"} /\ db.result = "Ok") =>
          db.ret = db.reads[Len(db.reads)]

\* C18 (as stated): for every N and D, N vectors written with open_write
\* and write_vec, then read with open_read and read_vec / read_vec_into,
\* come back with num_vectors = N, num_dimensions = D and every vector
\* bit-identical and in order.
C18_RoundTripAnyShape ==
    RoundTrip => ReadsWhatWasWritten

\* C18 (amended): the same for every N and D below 2^32, the range of the
\* header's u32 fields.
C18_RoundTrip ==
    (RoundTrip /\ db.N.hi = 0 /\ db.D.hi = 0) => ReadsWhatWasWritten

\* C18 witness: two different vectors of more than one float were written
\* and both were read back.
C18_Witness ==
    /\ RoundTrip
    /\ db.D.lo > 1
    /\ Len(db.written) = 2
    /\ db.written[1] # db.written[2]
    /\ db.reads = db.written

\* C19: when the callback of read_all_vecs returns false on its k-th
\* invocation (1 <= k <= N), the call returns k and the cursor has advanced
\* by exactly k vectors, so that the next read_vec yields the vector at
\* index k.
C19_EarlyStopAdvancesCursor ==
    [][(/\ db.mode = "read"
        /\ db'.op = "read_all_vecs"
        /\ db'.result = "Ok"
        /\ db'.arg >= 1)
       => /\ db'.ret = db'.arg
          /\ db'.pos = db.pos + db'.arg * vec_stride(db.num_dimensions)]_vars

\* C20: write_vec(v) with v.len() # D and read_vec_into(buf) with
\* buf.len() # D return an Err to the caller and leave the cursor and the
\* file unchanged.
C20_WrongLengthIsAnError ==
    [][(\/ /\ db.mode = "write"
           /\ db'.op = "write_vec"
           /\ len_of(db'.arg) # db.num_dimensions
        \/ /\ db.mode = "read"
           /\ db'.op = "read_vec_into"
           /\ Usize(0, db'.arg) # db.num_dimensions)
       => /\ db'.result = "Err"
          /\ db'.file = db.file
          /\ db'.pos = db.pos]_vars

\* C21: open_read on an existing file whose version field is not 0 returns
\* an error to the caller: the call does not abort the process and yields
\* no usable handle.
C21_HeaderMismatchIsAnError ==
    (/\ db.op = "open_read"
     /\ Len(db.file) >= HEADER_SIZE
     /\ from_be_bytes(SubSeq(db.file, 1, 4)) # <<0, 0>>)
    => (db.result = "Err" /\ db.mode = "closed")

\* ------------------------------------------------------------------------
\* opencl_bf_search: the OpenCL host sequence of main and the dot_product
\* kernel it builds
\* ------------------------------------------------------------------------

\* const X, const P of main: the local work size [X, P].
X == 16

P == 16

\* The three in-order command queues (Queue::new(&context, device, None)).
Queues == {"matrix_queue", "vector_queue", "result_queue"}

\* The commands of the sequence, named by the events they signal.
Events == {"data_write_event", "query_write_event", "kernel_write_event",
           "results_read_event"}

\* The queue each command is enqueued on: the buffers' default queues for
\* the transfers, the kernel's queue for the kernel.
queue_of(event) ==
    CASE event = "data_write_event"   -> "matrix_queue"
      [] event = "query_write_event"  -> "vector_queue"
      [] event = "kernel_write_event" -> "result_queue"
      [] event = "results_read_event" -> "result_queue"

\* The events a command waits for (ewait): the kernel for the event list of
\* both writes, the readback for the kernel's event.
ewait(event) ==
    CASE event = "kernel_write_event" -> {"query_write_event", "data_write_event"}
      [] event = "results_read_event" -> {"kernel_write_event"}
      [] OTHER -> {}

\* The matrices load_vectors hands to main: num_vecs rows of num_dims
\* integer-valued floats; row r, column k holds ((r * seed + k) % 5) - 2.
GpuShapes == {<<32, 16>>, <<27, 16>>}

GpuSeeds == {0, 1, 3}

GpuChunk(shape, seed) ==
    [AnySizeMemoryChunk_new(shape[1], shape[2]) EXCEPT
        !.data = [i \in 1..(shape[1] * shape[2]) |->
                    ((((i - 1) \div shape[2]) * seed + ((i - 1) % shape[2])) % 5) - 2]]

\* chunk.get_row_major_vec(idx)
get_row_major_vec(m, idx) ==
    SubSeq(m.data, idx * m.num_dims + 1, (idx + 1) * m.num_dims)

\* The CPU reference of main: reference[v] for every vector of the chunk.
cpu_reference(m, query) ==
    [i \in 1..m.virt_num_vecs |-> reference_row(query, m.data, m.num_dims, i - 1)]

\* DOT_PRODUCT_SOURCE, work item id: local_cols = cols / 4 float4 products
\* matrix[i + id * local_cols] * local_vec[i] are accumulated lane by lane
\* and result[id] = dot(dot_product, 1) adds the four lanes.
RECURSIVE dot_product_lane(_, _, _, _, _, _)
dot_product_lane(matrix, vector, id, local_cols, lane, i) ==
    IF i >= local_cols THEN 0
    ELSE At(matrix, 4 * (i + id * local_cols) + lane) * At(vector, 4 * i + lane)
         + dot_product_lane(matrix, vector, id, local_cols, lane, i + 1)

dot_product_kernel(matrix, vector, num_rows, num_cols) ==
    [i \in 1..num_rows |->
        LET lanes == [lane \in 0..3 |->
                        dot_product_lane(matrix, vector, i - 1, num_cols \div 4, lane, 0)]
        IN  lanes[0] + lanes[1] + lanes[2] + lanes[3]]

\* The host at line 75 of main, the CPU reference computed: the chunk, the
\* query (its first vector), no command enqueued, empty device buffers.
GpuState(chunk, platform) ==
    [pc |-> "cpu_done", platform |-> platform, chunk |-> chunk,
     first_vec |-> get_row_major_vec(chunk, 0),
     reference |-> cpu_reference(chunk, get_row_major_vec(chunk, 0)),
     transposed |-> <<>>,
     queues |-> [q \in Queues |-> <<>>],
     status |-> [e \in Events |-> "empty"],
     blocked |-> "none",
     matrix_buffer |-> <<>>, vector_buffer |-> <<>>, result_buffer |-> <<>>,
     results |-> <<>>]

InitGpu ==
    /\ IdleManager
    /\ tk = NoTopK
    /\ dp = NoDotProduct
    /\ mx = NoMatrix
    /\ db = NoVecDb
    /\ sa = NoAssignment
    /\ ld = NoLoad
    /\ \E shape \in GpuShapes, seed \in GpuSeeds, platform \in BOOLEAN :
          gpu = GpuState(GpuChunk(shape, seed), platform)

\* The host thread runs unless a blocking enqueue has not completed yet.
HostRuns ==
    IF gpu.blocked = "none" THEN TRUE ELSE gpu.status[gpu.blocked] = "complete"

\* enq(): the command joins its queue; a transfer may block the host until
\* the command has completed.
enq(g, event, block) ==
    [g EXCEPT !.queues[queue_of(event)] = Append(@, event),
              !.status[event] = "queued",
              !.blocked = IF block THEN event ELSE "none"]

\* if opencl_selection.is_none() { return }
SelectDevice ==
    /\ gpu.pc = "cpu_done"
    /\ gpu' = [gpu EXCEPT !.pc = IF gpu.platform THEN "selected" ELSE "returned"]
    /\ UNCHANGED <<mgrVars, tk, dp, mx, db, sa, ld>>

\* Context, program, queues, buffers and Kernel::builder() ... build(),
\* every one unwrapped: the OpenCL runtime accepts them or the host panics.
BuildKernel ==
    /\ gpu.pc = "selected"
    /\ \E ok \in BOOLEAN :
          gpu' = [gpu EXCEPT
                    !.pc = IF ok THEN "built" ELSE "panic",
                    !.matrix_buffer =
                        [i \in 1..(gpu.chunk.virt_num_vecs * gpu.chunk.num_dims) |-> 0],
                    !.vector_buffer = [i \in 1..gpu.chunk.num_dims |-> 0],
                    !.result_buffer = [i \in 1..gpu.chunk.virt_num_vecs |-> 0]]
    /\ UNCHANGED <<mgrVars, tk, dp, mx, db, sa, ld>>

\* let transposed = chunk.as_transposed(AccessHint::Sequential)
Transpose ==
    /\ gpu.pc = "built"
    /\ LET t == as_transposed(gpu.chunk, FALSE)
       IN  gpu' = [gpu EXCEPT !.pc = IF t.panic THEN "panic" ELSE "transposed",
                              !.transposed = as_ref(t).slice]
    /\ UNCHANGED <<mgrVars, tk, dp, mx, db, sa, ld>>

\* matrix_buffer.cmd().enew(&mut data_write_event).write(transposed.as_ref()).enq()
EnqMatrixWrite ==
    /\ gpu.pc = "transposed"
    /\ \E block \in BOOLEAN :
          gpu' = [enq(gpu, "data_write_event", block) EXCEPT !.pc = "matrix_enqueued"]
    /\ UNCHANGED <<mgrVars, tk, dp, mx, db, sa, ld>>

\* vector_buffer.cmd().enew(&mut query_write_event).write(&first_vec).enq()
EnqQueryWrite ==
    /\ gpu.pc = "matrix_enqueued"
    /\ HostRuns
    /\ \E block \in BOOLEAN :
          gpu' = [enq(gpu, "query_write_event", block) EXCEPT !.pc = "query_enqueued"]
    /\ UNCHANGED <<mgrVars, tk, dp, mx, db, sa, ld>>

\* dot_product_kernel.cmd().ewait(&event_list).enew(&mut kernel_write_event).enq()
\* with global work size [num_vecs, P] and local work size [X, P]: a global
\* size that X does not divide may be refused, and the unwrap panics.
EnqKernel ==
    /\ gpu.pc = "query_enqueued"
    /\ HostRuns
    /\ \E ok \in BOOLEAN :
          /\ (gpu.chunk.virt_num_vecs % X = 0) => ok
          /\ gpu' = IF ok
                    THEN [enq(gpu, "kernel_write_event", FALSE) EXCEPT
                             !.pc = "kernel_enqueued"]
                    ELSE [gpu EXCEPT !.pc = "panic"]
    /\ UNCHANGED <<mgrVars, tk, dp, mx, db, sa, ld>>

\* result_buffer.cmd().enew(&mut results_read_event).ewait(&kernel_write_event)
\*     .read(&mut results).enq()
EnqRead ==
    /\ gpu.pc = "kernel_enqueued"
    /\ \E block \in BOOLEAN :
          gpu' = [enq(gpu, "results_read_event", block) EXCEPT !.pc = "read_enqueued"]
    /\ UNCHANGED <<mgrVars, tk, dp, mx, db, sa, ld>>

\* results_read_event.wait_for(): the host continues when the event is
\* complete.
WaitFor ==
    /\ gpu.pc = "read_enqueued"
    /\ HostRuns
    /\ gpu.status["results_read_event"] = "complete"
    /\ gpu' = [gpu EXCEPT !.pc = "dispatched"]
    /\ UNCHANGED <<mgrVars, tk, dp, mx, db, sa, ld>>

\* The device may start a queued command when every event of its wait list
\* is complete and every command enqueued before it on its (in-order) queue
\* is complete.
may_start_unordered(g, event) ==
    g.status[event] = "queued"

may_start(g, event) ==
    /\ g.status[event] = "queued"
    /\ \A e \in ewait(event) : g.status[e] = "complete"
    /\ LET queue == g.queues[queue_of(event)]
       IN  \A i \in 1..Len(queue), j \in 1..Len(queue) :
              (queue[j] = event /\ i < j) => g.status[queue[i]] = "complete"

\* The device starts a command.
Start(event) ==
    /\ may_start(gpu, event)
    /\ gpu' = [gpu EXCEPT !.status[event] = "running"]
    /\ UNCHANGED <<mgrVars, tk, dp, mx, db, sa, ld>>

\* The device completes a command: a write has filled its buffer, the
\* kernel has stored result[id] for every work item, the readback has
\* copied the result buffer into results.
Complete(event) ==
    /\ gpu.status[event] = "running"
    /\ gpu' =
         [gpu EXCEPT
            !.status[event] = "complete",
            !.matrix_buffer =
                IF event = "data_write_event" THEN gpu.transposed ELSE @,
            !.vector_buffer =
                IF event = "query_write_event" THEN gpu.first_vec ELSE @,
            !.result_buffer =
                IF event = "kernel_write_event"
                THEN dot_product_kernel(gpu.matrix_buffer, gpu.vector_buffer,
                                        gpu.chunk.virt_num_vecs, gpu.chunk.num_dims)
                ELSE @,
            !.results =
                IF event = "results_read_event" THEN gpu.result_buffer ELSE @]
    /\ UNCHANGED <<mgrVars, tk, dp, mx, db, sa, ld>>

StartWrite == Start("data_write_event") \/ Start("query_write_event")

StartKernel == Start("kernel_write_event")

StartRead == Start("results_read_event")

CompleteWrite == Complete("data_write_event") \/ Complete("query_write_event")

CompleteKernel == Complete("kernel_write_event")

CompleteRead == Complete("results_read_event")

NextGpu ==
    \/ SelectDevice
    \/ BuildKernel
    \/ Transpose
    \/ EnqMatrixWrite
    \/ EnqQueryWrite
    \/ EnqKernel
    \/ EnqRead
    \/ WaitFor
    \/ StartWrite
    \/ StartKernel
    \/ StartRead
    \/ CompleteWrite
    \/ CompleteKernel
    \/ CompleteRead

SpecGpu == InitGpu /\ [][NextGpu]_vars

\* A command has started: it is running or complete.
Started(event) == gpu.status[event] \in {"running", "complete"}

Completed(event) == gpu.status[event] = "complete"

\* C22: the kernel never starts before both the matrix write and the query
\* write have completed (in whichever order these two complete), the
\* readback never starts before the kernel has completed, and the host is
\* past the dispatch only when the readback event has completed.
C22_HostSequenceOrdered ==
    /\ gpu.pc # "none"
       => /\ Started("kernel_write_event")
             => Completed("data_write_event") /\ Completed("query_write_event")
          /\ Started("results_read_event") => Completed("kernel_write_event")
          /\ gpu.pc = "dispatched" => Completed("results_read_event")

\* C22 witness: the host is past the dispatch, all four commands complete.
C22_Witness ==
    /\ gpu.pc = "dispatched"
    /\ \A e \in Events : Completed(e)

\* C28: the matrix the host uploads has the layout the built dot_product
\* kernel indexes, work item r reading the D elements of stored vector r:
\* the scores read back equal the CPU reference, result[r] = sum over k of
\* M[r, k] * q[k], for every r in 0..N.
C28_DeviceScoresMatchReference ==
    (gpu.pc = "dispatched") => (gpu.results = gpu.reference)

\* ------------------------------------------------------------------------
\* Further properties of the top-K selectors
\* ------------------------------------------------------------------------

\* The first K values of a score vector sorted in descending order.
RECURSIVE Largest(_, _)
Largest(values, K) ==
    IF K = 0 \/ values = <<>> THEN <<>>
    ELSE LET i == CHOOSE i \in 1..Len(values) :
                      \A j \in 1..Len(values) : values[j] <= values[i]
         IN  <<values[i]>>
             \o Largest(SubSeq(values, 1, i - 1) \o SubSeq(values, i + 1, Len(values)),
                        K - 1)

\* The scores of the entries the last selector call returned, in order.
ReturnedValues == [k \in 1..Len(tk.entries) |-> tk.entries[k].value]

\* Two sequences hold the same multiset of values.
SameMultiset(a, b) ==
    /\ Len(a) = Len(b)
    /\ \A v \in {a[i] : i \in 1..Len(a)} \cup {b[i] : i \in 1..Len(b)} :
          Cardinality({i \in 1..Len(a) : a[i] = v})
            = Cardinality({i \in 1..Len(b) : b[i] = v})

TopKImpls == {"NaiveBubble", "NaiveUnstable", "QuickSelect", "QuickSelectIterative",
              "MinHeap"}

\* C23: for an input of finite scores with length > K every implementation
\* of the TopK trait returns the same multiset of K scores, the K largest
\* values of the input, each paired with an index at which the input holds
\* that value.
C23_ImplementationsAgree ==
    (tk.impl \in TopKImpls /\ Len(tk.input) > tk.K) =>
        /\ ~tk.panic
        /\ SameMultiset(ReturnedValues, Largest(tk.input, tk.K))
        /\ EntriesFromInput

\* C24: for every input of length >= K, MinHeap::topk::<K> returns the K
\* largest scores with their original indices, ordered by score descending:
\* result[0] holds the largest score, result[K-1] the K-th largest; for
\* [30,3,1,12,2,11] and K = 4, result[3] is (1, 3).
C24_MinHeapDescending ==
    (tk.impl = "MinHeap") =>
        /\ ~tk.panic
        /\ ReturnedValues = Largest(tk.input, tk.K)
        /\ EntriesFromInput
        /\ Cardinality(ReturnedIndices) = tk.K
        /\ (tk.input = TestScores /\ tk.K = 4) => tk.entries[4] = Entry(1, 3)

\* C24 witness: MinHeap selected 4 of the 6 test scores, which are not in
\* descending order in the input.
C24_Witness ==
    /\ tk.impl = "MinHeap"
    /\ tk.input = TestScores
    /\ tk.K = 4
    /\ ReturnedValues = <<30, 12, 11, 3>>

\* C25: for data of length > K, quickselect_max::<K> returns the entry whose
\* value is the element at position K (0-based) of the input sorted in
\* descending order and whose index is that element's index in the
\* original input; for [30,3,1,12,2,11] and K = 3 it returns (1, 3).
C25_QuickselectReturnsKth ==
    (tk.impl = "quickselect_max" /\ Len(tk.input) > tk.K) =>
        /\ ~tk.panic
        /\ Len(tk.entries) = 1
        /\ tk.entries[1].value = Largest(tk.input, tk.K + 1)[tk.K + 1]
        /\ tk.entries[1].index \in 0..(Len(tk.input) - 1)
        /\ At(tk.input, tk.entries[1].index) = tk.entries[1].value
        /\ (tk.input = TestScores /\ tk.K = 3) => tk.entries[1] = Entry(1, 3)

\* ------------------------------------------------------------------------
\* IndexVectorAssignment under arbitrary replace calls
\* ------------------------------------------------------------------------

\* An IndexVectorAssignment has 1..MaxSlots slots.
MaxSlots == 3

\* An IndexVectorAssignment, the last replace(index, value) on it, what the
\* slot held before the call and what the call returned.
SlotAssignment(op, a, index, value, before, previous) ==
    [op |-> op, row |-> a, index |-> index, value |-> value,
     before |-> before, previous |-> previous]

\* IndexVectorAssignment::new(num_vecs)
InitSlots ==
    /\ IdleManager
    /\ tk = NoTopK
    /\ dp = NoDotProduct
    /\ mx = NoMatrix
    /\ db = NoVecDb
    /\ gpu = NoGpu
    /\ ld = NoLoad
    /\ \E num_vecs \in 1..MaxSlots :
          sa = SlotAssignment("new", IndexVectorAssignment_new(num_vecs), 0, NoneId,
                              NoneId, NoneId)

\* IndexVectorAssignment::replace(index, value): value is Some(id) or None.
Replace ==
    /\ sa.op # "none"
    /\ \E index \in 0..(Len(sa.row.assignments) - 1), value \in LocalIds \cup {NoneId} :
          LET r == replace(sa.row, index, value)
          IN  sa' = SlotAssignment("replace", r.row, index, value,
                                   sa.row.assignments[index + 1], r.previous)
    /\ UNCHANGED <<mgrVars, tk, dp, mx, db, gpu, ld>>

NextSlots == Replace

SpecSlots == InitSlots /\ [][NextSlots]_vars

\* The slots that hold Some(id).
Occupied(a) == {i \in 1..Len(a.assignments) : a.assignments[i] # NoneId}

\* C26: after any sequence of replace(slot, value) calls, len() equals the
\* number of slots holding Some(id), each replace returned the value the
\* slot held immediately before the call, and is_full() is true exactly
\* when every slot is occupied.
C26_CountTracksSlots ==
    sa.op # "none" =>
        /\ IndexVectorAssignment_len(sa.row) = Cardinality(Occupied(sa.row))
        /\ sa.op = "replace" =>
              /\ sa.previous = sa.before
              /\ sa.row.assignments[sa.index + 1] = sa.value
        /\ is_full(sa.row) <=> (Occupied(sa.row) = 1..Len(sa.row.assignments))

\* C26 witness: a slot that held an id was cleared with replace(slot, None)
\* while another slot stays occupied.
C26_Witness ==
    /\ sa.op = "replace"
    /\ sa.value = NoneId
    /\ sa.before # NoneId
    /\ Occupied(sa.row) # {}
    /\ Len(sa.row.assignments) > 1

\* ------------------------------------------------------------------------
\* Further properties of the chunk manager
\* ------------------------------------------------------------------------

\* C27: across any sequence of insert_vector calls, successful or failing,
\* the number of chunks never decreases, and once an id is recorded at
\* (chunk c, slot s) its registry entry, its slot assignment and the D
\* floats stored at that slot are not changed or removed by a later call.
C27_RecordedVectorsAreStable ==
    [][/\ Len(chunks') >= Len(chunks)
       /\ Len(assignments') >= Len(assignments)
       /\ \A id \in DOMAIN registry :
             /\ id \in DOMAIN registry'
             /\ registry'[id] = registry[id]
             /\ \A cs \in SlotsIn(assignments, id) :
                   /\ cs \in SlotsIn(assignments', id)
                   /\ StoredIn(chunks', cs[1], cs[2]) = StoredIn(chunks, cs[1], cs[2])]_vars

\* C27 witness: a later call, which added a chunk, and a rejected call came
\* after an id was recorded in chunk 0: ids live in two chunks and the last
\* call failed.
C27_Witness ==
    /\ Inserted /\ last.result # "Ok"
    /\ Len(chunks) > 1
    /\ \E a, b \in DOMAIN registry : registry[a] = 0 /\ registry[b] > 0
    /\ num_dims > 1

\* C29: for every dimensionality D that ChunkManager::new accepts and every
\* slot s < vectors_per_chunk, the address insert_vector writes the vector
\* to (the 64-byte-aligned chunk base plus 4 * s * D bytes) is 64-byte
\* aligned, so the alignment assertion of insert_vector holds for every
\* insertion.
C29_TargetIsAligned ==
    (Inserted /\ last.slot # NoSlot) =>
        /\ is_64byte_aligned(target_as_ptr(last.slot, num_dims))
        /\ last.result # "panic"

\* ------------------------------------------------------------------------
\* opencl_bf_search: the --max-vecs option and load_vectors
\* ------------------------------------------------------------------------

\* const MIN_COUNT of the value parser of --max-vecs.
MIN_COUNT == 256

\* The largest vector count of a database and the largest --max-vecs value
\* explored.
MaxCount == 300

\* The vector counts of the database file's header.
DbCounts == 0..MaxCount

\* The numbers given to --max-vecs: the release default 0, and the numbers
\* around MIN_COUNT and above.
MaxVecsArgs == {0} \cup ((MIN_COUNT - 2)..MaxCount)

\* The state of one run: the step reached, the number given to --max-vecs,
\* the database's vector count, the value the parser produced and the
\* vector count of the chunk load_vectors returned.
LoadState(op, arg, num_vectors, sample_size, loaded) ==
    [op |-> op, arg |-> arg, num_vectors |-> num_vectors,
     sample_size |-> sample_size, loaded |-> loaded]

\* cli::num_vecs on the parsed number: Err below MIN_COUNT, Ok(count) else.
num_vecs(count) ==
    IF count < MIN_COUNT THEN [ok |-> FALSE, value |-> 0]
    ELSE [ok |-> TRUE, value |-> count]

\* load_vectors: the database's count rounded down to a multiple of 32
\* (num_vecs & !(32 - 1)), then limited to sample_size when that is positive.
load_vectors(num_vectors, sample_size) ==
    LET rounded == num_vectors - (num_vectors % 32)
    IN  IF sample_size > 0
        THEN IF rounded <= sample_size THEN rounded ELSE sample_size
        ELSE rounded

InitLoad ==
    /\ IdleManager
    /\ tk = NoTopK
    /\ dp = NoDotProduct
    /\ mx = NoMatrix
    /\ db = NoVecDb
    /\ gpu = NoGpu
    /\ sa = NoAssignment
    /\ \E arg \in MaxVecsArgs, num_vectors \in DbCounts :
          ld = LoadState("start", arg, num_vectors, 0, 0)

\* build_command().get_matches(): the value parser of --max-vecs.
GetMatches ==
    /\ ld.op = "start"
    /\ LET parsed == num_vecs(ld.arg)
       IN  ld' = IF parsed.ok
                 THEN LoadState("matched", ld.arg, ld.num_vectors,
                                parsed.value, 0)
                 ELSE LoadState("rejected", ld.arg, ld.num_vectors, 0, 0)
    /\ UNCHANGED <<mgrVars, tk, dp, mx, db, gpu, sa>>

\* main: load_vectors(db_file, num_vecs). A chunk of zero vectors asks the
\* allocator for zero bytes, which it may refuse (expect panics).
LoadVectors ==
    /\ ld.op = "matched"
    /\ LET n == load_vectors(ld.num_vectors, ld.sample_size)
       IN  \E allocated \in BOOLEAN :
              /\ (n > 0) => allocated
              /\ ld' = LoadState(IF allocated THEN "loaded" ELSE "panic",
                                 ld.arg, ld.num_vectors, ld.sample_size,
                                 IF allocated THEN n ELSE 0)
    /\ UNCHANGED <<mgrVars, tk, dp, mx, db, gpu, sa>>

NextLoad == GetMatches \/ LoadVectors

SpecLoad == InitLoad /\ [][NextLoad]_vars

\* C30: for every vector count of the database and every --max-vecs value
\* the command line accepts, the chunk load_vectors returns has a vector
\* count that is a multiple of 32 (hence divisible by the local work size 16).
C30_LoadedCountIsMultipleOf32 ==
    (ld.op = "loaded") => (ld.loaded % 32 = 0 /\ ld.loaded % X = 0)

====
